---- MODULE Spec2Model ----
(***************************************************************************)
(* Segment addressing and merge engine of the HTML translation service.    *)
(*                                                                         *)
(* Strings are sequences of one-character strings, so that join, split,    *)
(* base64, the tag regex, serialisation and parsing are computed the way   *)
(* the code computes them.  A parsed document is a nested record           *)
(* [type, name, class, data, kids]; an element is designated by its        *)
(* position, the sequence of child indices leading to it from the root.    *)
(*                                                                         *)
(* Specifications:                                                         *)
(*   SpecExtract    POST /extract of the native server (handleExtract)     *)
(*   Spec           POST /merge of the native server (handleMerge)         *)
(*   SpecValidator  checkUnclosedTags, one loop iteration per step         *)
(*   SpecExpress    POST /api/merge of the Express application             *)
(*   SpecPart2      mergeTranslations of the alternative parser module     *)
(*   SpecPart2Extract  extractTextSegments of that module                   *)
(*   SpecReorder    handleMerge with fragments that contain a block element *)
(*   SpecResolve    handleMerge with one hand-written id                    *)
(*   SpecAddress    handleExtract on documents with unusual tag names       *)
(*   SpecAppend     the merge in Append-Bilingual mode (from the README)    *)
(*   SpecExpressApi the routes POST /api/extract and POST /api/merge with   *)
(*                  their authentication                                    *)
(*   SpecPart2Missing  mergeTranslations of that module with an id whose    *)
(*                  path has a step without matching child                  *)
(*   SpecPart2Prune extractTextSegments of that module on documents with    *)
(*                  excluded elements                                       *)
(*   SpecInterleaved  checkUnclosedTags on fragments with interleaved tags  *)
(*   SpecServer     a request of the native server from the request         *)
(*                  listener on, with the shutdown of the process           *)
(*   SpecServerLive SpecServer with the fairness of the force-exit timer    *)
(*   SpecExpressShutdown  the Express application with its shutdown         *)
(***************************************************************************)
EXTENDS Integers, Sequences, FiniteSets, TLC

(***************************************************************************)
(* Bounds of the model.                                                    *)
(***************************************************************************)
MaxNodes == 3
MaxMergeNodes == 2
MaxBatch == 2
MaxPieces == 3

(***************************************************************************)
(* Generic string helpers.                                                 *)
(***************************************************************************)
NoClass == <<"<none>">>

RECURSIVE Flatten(_)
Flatten(ss) == IF ss = <<>> THEN <<>> ELSE Head(ss) \o Flatten(Tail(ss))

RECURSIVE IndexOfFrom(_, _, _)
\* first index >= i at which character c occurs in s, 0 when there is none
IndexOfFrom(s, c, i) ==
  IF i > Len(s) THEN 0
  ELSE IF s[i] = c THEN i ELSE IndexOfFrom(s, c, i + 1)

Includes(s, c) == IndexOfFrom(s, c, 1) # 0

StartsWith(s, p) == Len(s) >= Len(p) /\ SubSeq(s, 1, Len(p)) = p

EndsWith(s, p) == Len(s) >= Len(p) /\ SubSeq(s, Len(s) - Len(p) + 1, Len(s)) = p

RECURSIVE Join(_, _)
\* Array.prototype.join
Join(parts, sep) ==
  IF parts = <<>> THEN <<>>
  ELSE IF Len(parts) = 1 THEN parts[1]
  ELSE parts[1] \o sep \o Join(Tail(parts), sep)

RECURSIVE Split(_, _)
\* String.prototype.split on a one-character separator
Split(s, c) ==
  LET k == IndexOfFrom(s, c, 1)
  IN IF k = 0 THEN <<s>>
     ELSE <<SubSeq(s, 1, k - 1)>> \o Split(SubSeq(s, k + 1, Len(s)), c)

\* String.prototype.replace(c, '') : removes the first occurrence only
ReplaceFirst(s, c) ==
  LET k == IndexOfFrom(s, c, 1)
  IN IF k = 0 THEN s ELSE SubSeq(s, 1, k - 1) \o SubSeq(s, k + 1, Len(s))

\* The characters of the model are printable ASCII, one byte each (the grave
\* accent, which the model never uses, is spelled out).
Ascii ==
  <<
    " ", "!", "\"", "#", "$", "%", "&", "'", "(", ")", "*", "+", ",", "-",
    ".", "/", "0", "1", "2", "3", "4", "5", "6", "7", "8", "9", ":", ";",
    "<", "=", ">", "?", "@", "A", "B", "C", "D", "E", "F", "G", "H", "I",
    "J", "K", "L", "M", "N", "O", "P", "Q", "R", "S", "T", "U", "V", "W",
    "X", "Y", "Z", "[", "\\", "]", "^", "_", "grave", "a", "b", "c", "d", "e",
    "f", "g", "h", "i", "j", "k", "l", "m", "n", "o", "p", "q", "r", "s",
    "t", "u", "v", "w", "x", "y", "z", "{", "|", "}", "~"
  >>

AsciiSet == {Ascii[k] : k \in 1..Len(Ascii)}
CharCode == [c \in AsciiSet |-> 31 + (CHOOSE k \in 1..Len(Ascii) : Ascii[k] = c)]
CodeChar(b) == Ascii[b - 31]

Whitespace == {" "}
Digits == <<"0", "1", "2", "3", "4", "5", "6", "7", "8", "9">>
LowerLetters == {Ascii[k] : k \in 66..91}
UpperLetters == {Ascii[k] : k \in 34..59}
IsAlpha(c) == c \in LowerLetters \cup UpperLetters
IsDigit(c) == \E d \in 1..10 : Digits[d] = c
IsAlnum(c) == IsAlpha(c) \/ IsDigit(c)
IsWordChar(c) == IsAlnum(c) \/ c = "_"
DigitValue(c) == (CHOOSE d \in 1..10 : Digits[d] = c) - 1

ToLowerChar(c) == IF c \in UpperLetters THEN CodeChar(CharCode[c] + 32) ELSE c
ToLowerCase(s) == [k \in 1..Len(s) |-> ToLowerChar(s[k])]

RECURSIVE NatToString(_)
\* decimal rendering of a non-negative integer inside a template literal
NatToString(n) ==
  IF n < 10 THEN <<Digits[n + 1]>>
  ELSE NatToString(n \div 10) \o <<Digits[(n % 10) + 1]>>

NaN == -1000000

RECURSIVE ParseDigits(_, _, _)
ParseDigits(s, i, acc) ==
  IF i <= Len(s) /\ IsDigit(s[i])
  THEN ParseDigits(s, i + 1, acc * 10 + DigitValue(s[i]))
  ELSE acc

RECURSIVE SkipSpaces(_, _)
SkipSpaces(s, i) ==
  IF i <= Len(s) /\ s[i] \in Whitespace THEN SkipSpaces(s, i + 1) ELSE i

\* parseInt(s, 10): leading white space, an optional sign, then the longest
\* run of digits; NaN when no digit follows
ParseInt(s) ==
  LET i == SkipSpaces(s, 1)
      neg == i <= Len(s) /\ s[i] = "-"
      j == IF i <= Len(s) /\ s[i] \in {"-", "+"} THEN i + 1 ELSE i
  IN IF j <= Len(s) /\ IsDigit(s[j])
     THEN (IF neg THEN 0 - ParseDigits(s, j, 0) ELSE ParseDigits(s, j, 0))
     ELSE NaN

RECURSIVE CollapseWs(_, _)
\* html.replace(/\s+/g, ' ')
CollapseWs(s, i) ==
  IF i > Len(s) THEN <<>>
  ELSE IF s[i] \in Whitespace
       THEN <<" ">> \o CollapseWs(s, SkipSpaces(s, i))
       ELSE <<s[i]>> \o CollapseWs(s, i + 1)

RECURSIVE TrimEnd(_)
TrimEnd(s) ==
  IF s # <<>> /\ s[Len(s)] \in Whitespace THEN TrimEnd(SubSeq(s, 1, Len(s) - 1)) ELSE s

\* String.prototype.trim
Trim(s) == TrimEnd(SubSeq(s, SkipSpaces(s, 1), Len(s)))

normalizeWhitespace(html) ==
  IF html = <<>> THEN <<>> ELSE Trim(CollapseWs(html, 1))

(***************************************************************************)
(* Buffer.from(path).toString('base64') and its inverse                    *)
(* Buffer.from(hash, 'base64').toString('utf-8'), computed on the bytes.   *)
(***************************************************************************)
B64Alphabet ==
  <<
    "A", "B", "C", "D", "E", "F", "G", "H", "I", "J", "K", "L", "M", "N",
    "O", "P", "Q", "R", "S", "T", "U", "V", "W", "X", "Y", "Z", "a", "b",
    "c", "d", "e", "f", "g", "h", "i", "j", "k", "l", "m", "n", "o", "p",
    "q", "r", "s", "t", "u", "v", "w", "x", "y", "z", "0", "1", "2", "3",
    "4", "5", "6", "7", "8", "9", "+", "/"
  >>

B64Set == {B64Alphabet[k] : k \in 1..Len(B64Alphabet)}
B64Value == [c \in B64Set |-> (CHOOSE k \in 1..Len(B64Alphabet) : B64Alphabet[k] = c) - 1]
B64Char(v) == B64Alphabet[v + 1]

RECURSIVE B64EncodeBytes(_)
B64EncodeBytes(bs) ==
  IF bs = <<>> THEN <<>>
  ELSE IF Len(bs) = 1
       THEN <<B64Char(bs[1] \div 4), B64Char((bs[1] % 4) * 16), "=", "=">>
  ELSE IF Len(bs) = 2
       THEN <<B64Char(bs[1] \div 4),
              B64Char((bs[1] % 4) * 16 + bs[2] \div 16),
              B64Char((bs[2] % 16) * 4), "=">>
  ELSE <<B64Char(bs[1] \div 4),
         B64Char((bs[1] % 4) * 16 + bs[2] \div 16),
         B64Char((bs[2] % 16) * 4 + bs[3] \div 64),
         B64Char(bs[3] % 64)>> \o B64EncodeBytes(SubSeq(bs, 4, Len(bs)))

RECURSIVE B64DecodeValues(_)
B64DecodeValues(vs) ==
  IF Len(vs) < 2 THEN <<>>
  ELSE IF Len(vs) = 2
       THEN <<vs[1] * 4 + vs[2] \div 16>>
  ELSE IF Len(vs) = 3
       THEN <<vs[1] * 4 + vs[2] \div 16, (vs[2] % 16) * 16 + vs[3] \div 4>>
  ELSE <<vs[1] * 4 + vs[2] \div 16,
         (vs[2] % 16) * 16 + vs[3] \div 4,
         (vs[3] % 4) * 64 + vs[4]>> \o B64DecodeValues(SubSeq(vs, 5, Len(vs)))

\* generatePathHash
generatePathHash(path) ==
  B64EncodeBytes([k \in 1..Len(path) |-> CharCode[path[k]]])

\* Buffer.from(hash, 'base64').toString('utf-8'): characters outside the
\* base64 alphabet (the padding included) are skipped
B64Decode(hash) ==
  LET cs == SelectSeq(hash, LAMBDA c : c \in B64Set)
      bs == B64DecodeValues([k \in 1..Len(cs) |-> B64Value[cs[k]]])
  IN [k \in 1..Len(bs) |-> CodeChar(bs[k])]

(***************************************************************************)
(* The document tree (the Tree Adapter of the library).                    *)
(***************************************************************************)
TextNode(d) ==
  [type |-> "text", name |-> <<>>, class |-> NoClass, data |-> d, kids |-> <<>>]

Element(n, c, ks) ==
  [type |-> "tag", name |-> n, class |-> c, data |-> <<>>, kids |-> ks]

RootNode(ks) ==
  [type |-> "root", name |-> <<>>, class |-> NoClass, data |-> <<>>, kids |-> ks]

IsTag(n) == n.type = "tag"

T_html == <<"h", "t", "m", "l">>
T_head == <<"h", "e", "a", "d">>
T_body == <<"b", "o", "d", "y">>
T_div == <<"d", "i", "v">>
T_p == <<"p">>
T_code == <<"c", "o", "d", "e">>
T_br == <<"b", "r">>
T_span == <<"s", "p", "a", "n">>
\* a valid custom element name that contains a dot
T_custom == <<"x", "-", "a", ".", "b">>

RECURSIVE NodeAt(_, _)
NodeAt(t, pos) == IF pos = <<>> THEN t ELSE NodeAt(t.kids[Head(pos)], Tail(pos))

RECURSIVE IsPosition(_, _)
IsPosition(t, pos) ==
  \/ pos = <<>>
  \/ /\ Head(pos) \in 1..Len(t.kids)
     /\ IsPosition(t.kids[Head(pos)], Tail(pos))

RECURSIVE SetKids(_, _, _)
\* the tree t with the children of the node at pos replaced by ks
SetKids(t, pos, ks) ==
  IF pos = <<>> THEN [t EXCEPT !.kids = ks]
  ELSE [t EXCEPT !.kids[Head(pos)] = SetKids(t.kids[Head(pos)], Tail(pos), ks)]

Parent(pos) == SubSeq(pos, 1, Len(pos) - 1)

IsPrefix(p, q) == Len(p) <= Len(q) /\ SubSeq(q, 1, Len(p)) = p
IsProperPrefix(p, q) == Len(p) < Len(q) /\ SubSeq(q, 1, Len(p)) = p

RECURSIVE ElementPositionsIn(_, _, _)
\* the positions of the element descendants of the node at pos, in document
\* order (the order in which a selector match is iterated)
ElementPositionsIn(t, pos, k) ==
  LET n == NodeAt(t, pos)
  IN IF k > Len(n.kids) THEN <<>>
     ELSE (IF IsTag(n.kids[k])
           THEN <<pos \o <<k>>>> \o ElementPositionsIn(t, pos \o <<k>>, 1)
           ELSE <<>>)
          \o ElementPositionsIn(t, pos, k + 1)

ElementPositions(t) == ElementPositionsIn(t, <<>>, 1)

RECURSIVE NodeCount(_)
NodeCount(ks) ==
  IF ks = <<>> THEN 0 ELSE 1 + NodeCount(Head(ks).kids) + NodeCount(Tail(ks))

(***************************************************************************)
(* Serialisation: $.html(), $element.html() with decodeEntities: false.    *)
(***************************************************************************)
\* the list of void elements without the line break
VOID_ELEMENTS_NoBr == {<<"h", "r">>, <<"i", "m", "g">>, <<"i", "n", "p", "u", "t">>,
                       <<"m", "e", "t", "a">>, <<"l", "i", "n", "k">>, <<"w", "b", "r">>}

VOID_ELEMENTS == {T_br, <<"h", "r">>, <<"i", "m", "g">>, <<"i", "n", "p", "u", "t">>,
                  <<"m", "e", "t", "a">>, <<"l", "i", "n", "k">>, <<"w", "b", "r">>}

RECURSIVE OuterHtml(_)
OuterHtml(n) ==
  IF n.type = "text" THEN n.data
  ELSE LET attrs == IF n.class = NoClass THEN <<>>
                    ELSE <<" ", "c", "l", "a", "s", "s", "=", "\"">> \o n.class \o <<"\"">>
           open == <<"<">> \o n.name \o attrs \o <<">">>
       IN IF n.name \in VOID_ELEMENTS THEN open
          ELSE open
               \o Flatten([k \in 1..Len(n.kids) |-> OuterHtml(n.kids[k])])
               \o <<"<", "/">> \o n.name \o <<">">>

InnerHtml(n) == Flatten([k \in 1..Len(n.kids) |-> OuterHtml(n.kids[k])])

(***************************************************************************)
(* Parsing: cheerio.load(html) and $element.html(fragment).  The library   *)
(* is modelled for the markup the model writes: start tags with an         *)
(* optional class attribute, end tags and text.  An end tag closes the     *)
(* nearest open element of that name and is dropped when there is none;    *)
(* elements still open at the end of the input are closed there.           *)
(***************************************************************************)
RECURSIVE IndexOfAnyFrom(_, _, _)
\* first index >= i of a character of the set cs, Len(s) + 1 when there is none
IndexOfAnyFrom(s, cs, i) ==
  IF i > Len(s) THEN i
  ELSE IF s[i] \in cs THEN i ELSE IndexOfAnyFrom(s, cs, i + 1)

RECURSIVE FindSub(_, _, _)
\* first index >= i at which sub occurs in s, 0 when there is none
FindSub(s, sub, i) ==
  IF i + Len(sub) - 1 > Len(s) THEN 0
  ELSE IF SubSeq(s, i, i + Len(sub) - 1) = sub THEN i ELSE FindSub(s, sub, i + 1)

ClassAttrOf(attrs) ==
  LET key == <<"c", "l", "a", "s", "s", "=", "\"">>
      k == FindSub(attrs, key, 1)
  IN IF k = 0 THEN NoClass
     ELSE LET from == k + Len(key)
              to == IndexOfFrom(attrs, "\"", from)
          IN IF to = 0 THEN NoClass ELSE SubSeq(attrs, from, to - 1)

RECURSIVE HtmlTokens(_, _)
\* the tokens of the markup s from index i on
HtmlTokens(s, i) ==
  IF i > Len(s) THEN <<>>
  ELSE IF s[i] = "<" /\ i + 2 <= Len(s) /\ s[i + 1] = "/" /\ IsAlpha(s[i + 2])
  THEN LET e == IndexOfAnyFrom(s, {" ", "/", ">"}, i + 2)
           g == IndexOfFrom(s, ">", i + 2)
       IN IF g = 0 THEN <<>>
          ELSE <<[k |-> "close", name |-> ToLowerCase(SubSeq(s, i + 2, e - 1)),
                  class |-> NoClass, data |-> <<>>]>> \o HtmlTokens(s, g + 1)
  ELSE IF s[i] = "<" /\ i + 1 <= Len(s) /\ IsAlpha(s[i + 1])
  THEN LET e == IndexOfAnyFrom(s, {" ", "/", ">"}, i + 1)
           g == IndexOfFrom(s, ">", i + 1)
       IN IF g = 0 THEN <<>>
          ELSE <<[k |-> "open", name |-> ToLowerCase(SubSeq(s, i + 1, e - 1)),
                  class |-> ClassAttrOf(SubSeq(s, e, g - 1)), data |-> <<>>]>>
               \o HtmlTokens(s, g + 1)
  ELSE LET e == IndexOfFrom(s, "<", i + 1)
           to == IF e = 0 THEN Len(s) ELSE e - 1
       IN <<[k |-> "text", name |-> <<>>, class |-> NoClass,
             data |-> SubSeq(s, i, to)]>> \o HtmlTokens(s, to + 1)

PrependText(d, ks) ==
  IF ks # <<>> /\ ks[1].type = "text"
  THEN <<TextNode(d \o ks[1].data)>> \o Tail(ks)
  ELSE <<TextNode(d)>> \o ks

RECURSIVE BuildKids(_, _, _)
\* the children built from token i on, inside the open elements `open`
\* (innermost first), and the index of the first token not consumed
BuildKids(toks, i, open) ==
  IF i > Len(toks) THEN [kids |-> <<>>, next |-> i]
  ELSE LET tok == toks[i]
       IN IF tok.k = "text"
          THEN LET r == BuildKids(toks, i + 1, open)
               IN [kids |-> PrependText(tok.data, r.kids), next |-> r.next]
          ELSE IF tok.k = "open"
          THEN IF tok.name \in VOID_ELEMENTS
               THEN LET r == BuildKids(toks, i + 1, open)
                    IN [kids |-> <<Element(tok.name, tok.class, <<>>)>> \o r.kids,
                        next |-> r.next]
               ELSE LET inner == BuildKids(toks, i + 1, <<tok.name>> \o open)
                        r == BuildKids(toks, inner.next, open)
                    IN [kids |-> <<Element(tok.name, tok.class, inner.kids)>> \o r.kids,
                        next |-> r.next]
          ELSE IF open # <<>> /\ tok.name = Head(open)
               THEN [kids |-> <<>>, next |-> i + 1]
               ELSE IF \E j \in 1..Len(open) : open[j] = tok.name
                    THEN [kids |-> <<>>, next |-> i]
                    ELSE BuildKids(toks, i + 1, open)

\* the nodes a fragment of markup parses to
ParseFragment(s) == BuildKids(HtmlTokens(s, 1), 1, <<>>).kids

\* cheerio.load(html): the document always has html, head and body
CheerioLoad(html) ==
  RootNode(<<Element(T_html, NoClass,
                     <<Element(T_head, NoClass, <<>>),
                       Element(T_body, NoClass, ParseFragment(html))>>)>>)


\* $element.html(fragment): the children of the element are replaced by the
\* parsed fragment
SetInnerHtml(t, pos, s) == SetKids(t, pos, ParseFragment(s))

(***************************************************************************)
(* The documents of the model: every forest of at most MaxNodes nodes      *)
(* over a few tags, class values and texts that is the parse of its own    *)
(* serialisation (no adjacent text nodes, nothing block-level inside a     *)
(* p element, elements only directly under body).                          *)
(***************************************************************************)
Label(n, c) == [name |-> n, class |-> c]

\* the element kinds of the extracted documents: two containers, one of
\* them also with a class, an excluded tag and a custom element
DocLabels == {Label(T_div, NoClass), Label(T_div, <<"n">>), Label(T_p, NoClass),
              Label(T_code, NoClass), Label(T_custom, NoClass)}
DocTexts == {<<"a">>, <<" ", "a">>}

RECURSIVE ForestsOfSize(_, _, _)
\* the forests of exactly n nodes
ForestsOfSize(n, labels, texts) ==
  IF n = 0 THEN {<<>>}
  ELSE UNION {
         LET trees == (IF k = 1 THEN {TextNode(d) : d \in texts} ELSE {})
                      \cup {Element(l.name, l.class, ks) :
                              l \in labels, ks \in ForestsOfSize(k - 1, labels, texts)}
         IN {<<t>> \o f : t \in trees, f \in ForestsOfSize(n - k, labels, texts)} :
         k \in 1..n}

ForestsUpTo(n, labels, texts) == UNION {ForestsOfSize(k, labels, texts) : k \in 0..n}

RECURSIVE HasBlockInside(_)
HasBlockInside(ks) ==
  \E k \in 1..Len(ks) :
    \/ ks[k].name \in {T_div, T_p}
    \/ HasBlockInside(ks[k].kids)

RECURSIVE ParseStable(_)
ParseStable(ks) ==
  /\ \A k \in 1..Len(ks) - 1 : ~(ks[k].type = "text" /\ ks[k + 1].type = "text")
  /\ \A k \in 1..Len(ks) :
       /\ ks[k].name = T_p => ~HasBlockInside(ks[k].kids)
       /\ ParseStable(ks[k].kids)

DocumentsOver(n, labels, texts) ==
  {f \in ForestsUpTo(n, labels, texts) :
     /\ f # <<>>
     /\ \A k \in 1..Len(f) : IsTag(f[k])
     /\ ParseStable(f)}

\* the documents submitted to extract
Documents == DocumentsOver(MaxNodes, DocLabels, DocTexts)

\* the documents submitted to merge: containers and text only
MergeDocuments ==
  DocumentsOver(MaxMergeNodes, {Label(T_div, NoClass), Label(T_p, NoClass)}, {<<"a">>})

(***************************************************************************)
(* The native HTTP server (server.mjs): tag classification.                *)
(***************************************************************************)
CONTAINER_TAGS ==
  {
    <<"p">>, <<"d", "i", "v">>, <<"l", "i">>, <<"h", "1">>, <<"h", "2">>,
    <<"h", "3">>, <<"h", "4">>, <<"h", "5">>, <<"h", "6">>,
    <<"s", "e", "c", "t", "i", "o", "n">>,
    <<"a", "r", "t", "i", "c", "l", "e">>, <<"a", "s", "i", "d", "e">>,
    <<"b", "l", "o", "c", "k", "q", "u", "o", "t", "e">>, <<"d", "d">>,
    <<"d", "t">>, <<"d", "l">>, <<"f", "i", "e", "l", "d", "s", "e", "t">>,
    <<"f", "i", "g", "c", "a", "p", "t", "i", "o", "n">>,
    <<"f", "i", "g", "u", "r", "e">>, <<"f", "o", "o", "t", "e", "r">>,
    <<"h", "e", "a", "d", "e", "r">>, <<"m", "a", "i", "n">>,
    <<"n", "a", "v">>, <<"o", "l">>, <<"u", "l">>, <<"t", "d">>,
    <<"t", "h">>, <<"t", "r">>, <<"t", "b", "o", "d", "y">>,
    <<"t", "h", "e", "a", "d">>, <<"t", "f", "o", "o", "t">>
  }

EXCLUDED_TAGS ==
  {
    <<"s", "c", "r", "i", "p", "t">>, <<"s", "t", "y", "l", "e">>,
    <<"p", "r", "e">>, <<"c", "o", "d", "e">>,
    <<"c", "a", "n", "v", "a", "s">>, <<"s", "v", "g">>,
    <<"n", "o", "s", "c", "r", "i", "p", "t">>,
    <<"i", "f", "r", "a", "m", "e">>, <<"v", "i", "d", "e", "o">>,
    <<"a", "u", "d", "i", "o">>, <<"o", "b", "j", "e", "c", "t">>,
    <<"e", "m", "b", "e", "d">>, <<"a", "p", "p", "l", "e", "t">>,
    <<"m", "e", "t", "a">>, <<"l", "i", "n", "k">>
  }

RECURSIVE AncestorInExcluded(_, _)
\* the loop of isInsideExcludedTag: $current runs over the ancestors at pos
\* and above
AncestorInExcluded(t, pos) ==
  IF pos = <<>> THEN FALSE
  ELSE IF NodeAt(t, pos).name \in EXCLUDED_TAGS THEN TRUE
       ELSE AncestorInExcluded(t, Parent(pos))

isInsideExcludedTag(t, pos) == AncestorInExcluded(t, Parent(pos))

\* elementClasses.split(/\s+/).filter(Boolean)
ClassTokens(cls) ==
  IF cls = NoClass THEN <<>>
  ELSE SelectSeq(Split(cls, " "), LAMBDA tok : tok # <<>>)

hasIgnoredClass(t, pos, ignoredClasses) ==
  IF ignoredClasses = <<>> THEN FALSE
  ELSE LET elementClasses == ClassTokens(NodeAt(t, pos).class)
       IN \E k \in 1..Len(ignoredClasses) :
            \E j \in 1..Len(elementClasses) : elementClasses[j] = ignoredClasses[k]

(***************************************************************************)
(* The native HTTP server: path codec.                                     *)
(***************************************************************************)
\* $current.parent().children().filter(tagName equal): the positions of the
\* element children of the node at pos whose tag name is tg, in order
SameTagChildren(t, pos, tg) ==
  LET n == NodeAt(t, pos)
      idx == SelectSeq([k \in 1..Len(n.kids) |-> k],
                       LAMBDA k : IsTag(n.kids[k]) /\ n.kids[k].name = tg)
  IN [j \in 1..Len(idx) |-> pos \o <<idx[j]>>]

\* the index among all element siblings, whatever their tag
SiblingIndex_AnyTag(t, pos) ==
  Cardinality({k \in 1..(pos[Len(pos)] - 1) : IsTag(NodeAt(t, Parent(pos)).kids[k])})

\* siblings.index($current)
SiblingIndex(t, pos) ==
  LET sibs == SameTagChildren(t, Parent(pos), NodeAt(t, pos).name)
  IN (CHOOSE j \in 1..Len(sibs) : sibs[j] = pos) - 1

PathPart(t, pos) ==
  LET tagName == NodeAt(t, pos).name
  IN IF tagName = T_html \/ tagName = T_body THEN tagName
     ELSE tagName \o <<"[">> \o NatToString(SiblingIndex(t, pos)) \o <<"]">>

RECURSIVE PathParts(_, _)
\* the while loop of getPath: one part per element from the element up,
\* unshifted, stopping after html or when there is no parent element
PathParts(t, pos) ==
  IF Len(pos) = 1 \/ NodeAt(t, pos).name = T_html THEN <<PathPart(t, pos)>>
  ELSE PathParts(t, Parent(pos)) \o <<PathPart(t, pos)>>

getPath(t, pos) == Join(PathParts(t, pos), <<".">>)

\* the empty selection $([])
NotFound == <<0>>

\* the iteration with a negative index counting from the last matching child
FindStep_FromEnd(t, pos, part) ==
  IF Includes(part, "[") /\ Includes(part, "]")
  THEN LET sp == Split(part, "[")
           tag == sp[1]
           indexStr == sp[2]
           index == ParseInt(ReplaceFirst(indexStr, "]"))
           matchingChildren == SameTagChildren(t, pos, tag)
       IN IF index # NaN /\ Len(matchingChildren) > index
          THEN (IF index >= 0 THEN matchingChildren[index + 1]
                ELSE IF Len(matchingChildren) + index >= 0
                     THEN matchingChildren[Len(matchingChildren) + index + 1]
                     ELSE NotFound)
          ELSE NotFound
  ELSE LET matching == SameTagChildren(t, pos, part)
       IN IF matching # <<>> THEN matching[1] ELSE NotFound

\* one iteration of the for loop of findElementByPathHash: the element
\* selected from the one at pos by a path part, or NotFound
FindStep(t, pos, part) ==
  IF Includes(part, "[") /\ Includes(part, "]")
  THEN LET sp == Split(part, "[")
           tag == sp[1]
           indexStr == sp[2]
           index == ParseInt(ReplaceFirst(indexStr, "]"))
           matchingChildren == SameTagChildren(t, pos, tag)
       IN IF index # NaN /\ Len(matchingChildren) > index
          THEN (IF index >= 0 THEN matchingChildren[index + 1] ELSE NotFound)
          ELSE NotFound
  ELSE LET matching == SameTagChildren(t, pos, part)
       IN IF matching # <<>> THEN matching[1] ELSE NotFound

RECURSIVE FindFrom(_, _, _)
FindFrom(t, pos, parts) ==
  IF parts = <<>> THEN pos
  ELSE LET nxt == FindStep(t, pos, Head(parts))
       IN IF nxt = NotFound THEN NotFound ELSE FindFrom(t, nxt, Tail(parts))

findElementByPathHash(t, hash) ==
  FindFrom(t, <<>>, Split(B64Decode(hash), "."))

(***************************************************************************)
(* The native HTTP server: structural validator (checkUnclosedTags).       *)
(***************************************************************************)
RECURSIVE AlnumRunEnd(_, _)
\* index of the last character of the run of [a-zA-Z0-9] that starts at i
AlnumRunEnd(s, i) ==
  IF i + 1 <= Len(s) /\ IsAlnum(s[i + 1]) THEN AlnumRunEnd(s, i + 1) ELSE i

NoMatch == [start |-> 0, end |-> 0, full |-> <<>>, name |-> <<>>]

\* a match of /<\/?([a-zA-Z][a-zA-Z0-9]*)[^>]*>/ that starts exactly at i
TagMatchAt(s, i) ==
  IF i > Len(s) \/ s[i] # "<" THEN NoMatch
  ELSE LET n0 == IF i + 1 <= Len(s) /\ s[i + 1] = "/" THEN i + 2 ELSE i + 1
       IN IF n0 > Len(s) \/ ~IsAlpha(s[n0]) THEN NoMatch
          ELSE LET ne == AlnumRunEnd(s, n0)
                   g == IndexOfFrom(s, ">", ne + 1)
               IN IF g = 0 THEN NoMatch
                  ELSE [start |-> i, end |-> g, full |-> SubSeq(s, i, g),
                        name |-> SubSeq(s, n0, ne)]

RECURSIVE TagRegexExec(_, _)
\* tagRegex.exec(text) with lastIndex = from - 1: the leftmost match at or
\* after index from, NoMatch for null
TagRegexExec(s, from) ==
  IF from > Len(s) THEN NoMatch
  ELSE LET m == TagMatchAt(s, from)
       IN IF m # NoMatch THEN m ELSE TagRegexExec(s, from + 1)

SKIPPED_TAGS == {T_br, <<"h", "r">>, <<"i", "m", "g">>, <<"i", "n", "p", "u", "t">>,
                 <<"m", "e", "t", "a">>, <<"l", "i", "n", "k">>}

\* stack.lastIndexOf(tagName), 1-based, 0 for -1
RECURSIVE LastIndexOfFrom(_, _, _)
LastIndexOfFrom(stack, x, k) ==
  IF k = 0 THEN 0
  ELSE IF stack[k] = x THEN k ELSE LastIndexOfFrom(stack, x, k - 1)

LastIndexOf(stack, x) == LastIndexOfFrom(stack, x, Len(stack))

\* stack.splice(k, 1)
Splice(stack, k) == SubSeq(stack, 1, k - 1) \o SubSeq(stack, k + 1, Len(stack))

\* fullMatch.match(/\/\s*>$/)
EndsSlashSpacesGt(full) ==
  LET body == TrimEnd(SubSeq(full, 1, Len(full) - 1))
  IN full # <<>> /\ full[Len(full)] = ">" /\ body # <<>> /\ body[Len(body)] = "/"

\* checkUnclosedTags with a closing tag that only matches the top of the stack
ValidatorStep_TopOnly(st, m) ==
  LET tagName == ToLowerCase(m.name)
  IN IF EndsWith(m.full, <<"/", ">">>) \/ tagName \in SKIPPED_TAGS THEN st
     ELSE IF StartsWith(m.full, <<"<", "/">>)
          THEN IF st.stack = <<>> \/ st.stack[Len(st.stack)] # tagName
               THEN [st EXCEPT !.missingTags = Append(@, tagName)]
               ELSE [st EXCEPT !.stack = SubSeq(@, 1, Len(@) - 1)]
          ELSE IF ~EndsSlashSpacesGt(m.full)
               THEN [st EXCEPT !.stack = Append(@, tagName)]
               ELSE st

\* the body of the while loop of checkUnclosedTags for one match m, on the
\* state st = [stack, missingTags]
ValidatorStep(st, m) ==
  LET tagName == ToLowerCase(m.name)
  IN IF EndsWith(m.full, <<"/", ">">>) \/ tagName \in SKIPPED_TAGS THEN st
     ELSE IF StartsWith(m.full, <<"<", "/">>)
          THEN LET lastOpen == LastIndexOf(st.stack, tagName)
               IN IF lastOpen = 0
                  THEN [st EXCEPT !.missingTags = Append(@, tagName)]
                  ELSE [st EXCEPT !.stack = Splice(@, lastOpen)]
          ELSE IF ~EndsSlashSpacesGt(m.full)
               THEN [st EXCEPT !.stack = Append(@, tagName)]
               ELSE st

ValidatorResult(st) ==
  [isValid |-> Len(st.missingTags) = 0 /\ Len(st.stack) = 0,
   missingTags |-> st.missingTags \o st.stack]

RECURSIVE ValidatorLoop(_, _, _)
ValidatorLoop(text, from, st) ==
  LET m == TagRegexExec(text, from)
  IN IF m = NoMatch THEN ValidatorResult(st)
     ELSE ValidatorLoop(text, m.end + 1, ValidatorStep(st, m))

checkUnclosedTags(text) ==
  ValidatorLoop(text, 1, [stack |-> <<>>, missingTags |-> <<>>])

(***************************************************************************)
(* The native HTTP server: the body of handleExtract.                      *)
(***************************************************************************)
\* $(CONTAINER_TAGS.join(',')): the container elements in document order
ContainerPositions(t) ==
  SelectSeq(ElementPositions(t), LAMBDA pos : NodeAt(t, pos).name \in CONTAINER_TAGS)

\* the callback of .each for one container element: the segment pushed, as
\* a sequence of zero or one entries; el is the element it was taken from
ExtractOne(t, pos, options) ==
  IF isInsideExcludedTag(t, pos) THEN <<>>
  ELSE IF hasIgnoredClass(t, pos, options.ignoredClasses) THEN <<>>
  ELSE LET pathStr == getPath(t, pos)
           segId == generatePathHash(pathStr)
           html == InnerHtml(NodeAt(t, pos))
           text == IF options.preserveWhitespace THEN html ELSE normalizeWhitespace(html)
       IN IF text # <<>> /\ Trim(text) # <<>>
          THEN <<[id |-> segId, text |-> text, path |-> pathStr,
                  tag |-> NodeAt(t, pos).name, el |-> pos]>>
          ELSE <<>>

ExtractEntries(t, options) ==
  LET cs == ContainerPositions(t)
  IN Flatten([k \in 1..Len(cs) |-> ExtractOne(t, cs[k], options)])

\* the segments of the response: the entries without the model's el field
SegmentsOf(entries) ==
  [k \in 1..Len(entries) |->
     [id |-> entries[k].id, text |-> entries[k].text,
      path |-> entries[k].path, tag |-> entries[k].tag]]


DefaultExtractOptions == [ignoredClasses |-> <<>>, preserveWhitespace |-> FALSE]

(***************************************************************************)
(* The requests of the model.                                              *)
(***************************************************************************)
ExtractOptionSets ==
  [ignoredClasses : {<<>>, <<<<"n">>>>}, preserveWhitespace : BOOLEAN]

MergeOptionSets == [safetyCheck : BOOLEAN, strictMode : BOOLEAN]

X_text == <<"x">>
X_unclosed == <<"<", "b", ">", "x">>
MergeTexts == {X_text, X_unclosed}

\* an id no document of the model resolves: html.body.p[7]
UNRESOLVED_ID ==
  generatePathHash(<<"h", "t", "m", "l", ".", "b", "o", "d", "y", ".", "p", "[", "7", "]">>)

\* the ids a caller holds for a document: those extract returns for it, and
\* one that does not resolve
KnownIds(f) ==
  LET es == ExtractEntries(CheerioLoad(InnerHtml(RootNode(f))), DefaultExtractOptions)
  IN {es[k].id : k \in 1..Len(es)} \cup {UNRESOLVED_ID}

SeqsUpTo(S, n) == UNION {[1..k -> S] : k \in 0..n}

Translations(f) ==
  SeqsUpTo([id : KnownIds(f), text : MergeTexts], MaxBatch)

Absent == <<"<absent>">>
NoDom == RootNode(<<>>)

Response(status, error) ==
  [status |-> status, error |-> error, html |-> Absent, mergedCount |-> Absent,
   missingIds |-> Absent, segments |-> Absent]

(***************************************************************************)
(* State of one request, from the point where the JSON body has been       *)
(* parsed, and of one call of checkUnclosedTags.                           *)
(***************************************************************************)
VARIABLES
  pc,            \* position in the handler
  op,            \* "extract", "merge" or "validate"
  reqHtml,       \* json.html
  reqOptions,    \* json.options
  translations,  \* json.translations
  dom,           \* the tree $ of cheerio.load, NoDom before it is loaded
  loopIdx,       \* index of the translation the merge loop is at
  successCount,
  missingIds,
  entries,       \* the segments pushed by extract, with their elements
  responses,     \* the responses the handler writes, in order
  text,          \* checkUnclosedTags: the argument
  lastIndex,     \* checkUnclosedTags: tagRegex.lastIndex
  stack,         \* checkUnclosedTags: the open tag names
  missingTags,   \* checkUnclosedTags: the unmatched closing names
  result,        \* checkUnclosedTags: the returned object
  authorization, \* req.headers.authorization, Absent when the header is missing
  body,          \* what the client sends as the request body
  isShuttingDown,
  closeCalls,    \* number of calls of server.close
  forceTimers,   \* number of force-exit timers started
  closeErr,      \* the argument of the server.close callback, "pending" before it runs
  exitCode       \* <<code>> once process.exit(code) is called, <<>> while the process runs

requestVars == <<pc, op, reqHtml, reqOptions, translations, dom, loopIdx, successCount,
                 missingIds, entries, responses>>

validatorVars == <<text, lastIndex, stack, missingTags, result>>

serverVars == <<authorization, body, isShuttingDown, closeCalls, forceTimers, closeErr,
                exitCode>>

vars == <<requestVars, validatorVars, serverVars>>

\* process.env.API_BEARER_TOKEN
API_TOKEN == <<"t", "o", "k">>

AUTH_HEADER_PREFIX == <<"B", "e", "a", "r", "e", "r", " ">>

\* the process is up and no shutdown has been triggered
ProcessRunning ==
  /\ isShuttingDown = FALSE
  /\ closeCalls = 0
  /\ forceTimers = 0
  /\ closeErr = "pending"
  /\ exitCode = <<>>

\* the request carries the configured token and a JSON body
ServerRunning ==
  /\ authorization = AUTH_HEADER_PREFIX \o API_TOKEN
  /\ body = "json"
  /\ ProcessRunning

\* no call of checkUnclosedTags is being traced
ValidatorIdle ==
  /\ text = <<>>
  /\ lastIndex = 0
  /\ stack = <<>>
  /\ missingTags = <<>>
  /\ result = Absent

\* no handler has run yet
HandlerEntry ==
  /\ pc = "parsed"
  /\ dom = NoDom
  /\ loopIdx = 0
  /\ successCount = 0
  /\ missingIds = <<>>
  /\ entries = <<>>
  /\ responses = <<>>
  /\ ValidatorIdle
  /\ ServerRunning

\* a request to POST /extract, after parseInput
InitExtract ==
  /\ op = "extract"
  /\ \E f \in Documents : reqHtml = InnerHtml(RootNode(f))
  /\ reqOptions \in ExtractOptionSets
  /\ translations = <<>>
  /\ HandlerEntry

\* a request to POST /merge, after parseInput
Init ==
  /\ op = "merge"
  /\ \E f \in MergeDocuments :
       /\ reqHtml = InnerHtml(RootNode(f))
       /\ translations \in Translations(f)
  /\ reqOptions \in MergeOptionSets
  /\ HandlerEntry

\* handleExtract from cheerio.load to sendJsonResponse(res, 200, ...)
Extract ==
  /\ pc = "parsed" /\ op = "extract"
  /\ exitCode = <<>>
  /\ LET t == CheerioLoad(reqHtml)
         es == ExtractEntries(t, reqOptions)
     IN /\ dom' = t
        /\ entries' = es
        /\ responses' = Append(responses,
             [Response(200, Absent) EXCEPT !.segments = SegmentsOf(es)])
  /\ pc' = "done"
  /\ UNCHANGED <<op, reqHtml, reqOptions, translations, loopIdx, successCount, missingIds>>
  /\ UNCHANGED <<validatorVars, serverVars>>

\* the translations the safety check rejects, in order
InvalidTranslations(ts) ==
  SelectSeq(ts, LAMBDA tr : ~checkUnclosedTags(tr.text).isValid)

\* handleMerge: the safety check for unclosed tags
MergeSafetyCheck ==
  /\ pc = "parsed" /\ op = "merge"
  /\ exitCode = <<>>
  /\ IF reqOptions.safetyCheck # FALSE /\ InvalidTranslations(translations) # <<>>
     THEN /\ responses' = Append(responses, Response(400, "INVALID_STRUCTURE"))
          /\ pc' = "done"
     ELSE /\ pc' = "load"
          /\ UNCHANGED responses
  /\ UNCHANGED <<op, reqHtml, reqOptions, translations, dom, loopIdx, successCount,
                 missingIds, entries>>
  /\ UNCHANGED <<validatorVars, serverVars>>

\* handleMerge: cheerio.load and the initialisation of the counters
MergeLoad ==
  /\ pc = "load"
  /\ exitCode = <<>>
  /\ dom' = CheerioLoad(reqHtml)
  /\ loopIdx' = 1
  /\ successCount' = 0
  /\ missingIds' = <<>>
  /\ pc' = "loop"
  /\ UNCHANGED <<op, reqHtml, reqOptions, translations, entries, responses>>
  /\ UNCHANGED <<validatorVars, serverVars>>

\* handleMerge without the early return of strict mode
MergeApply_NoStrictAbort ==
  /\ pc = "loop" /\ loopIdx <= Len(translations)
  /\ exitCode = <<>>
  /\ LET translation == translations[loopIdx]
         el == findElementByPathHash(dom, translation.id)
     IN IF el = NotFound
        THEN /\ missingIds' = Append(missingIds, translation.id)
             /\ UNCHANGED <<dom, successCount>>
        ELSE /\ dom' = SetInnerHtml(dom, el, translation.text)
             /\ successCount' = successCount + 1
             /\ UNCHANGED missingIds
  /\ loopIdx' = loopIdx + 1
  /\ UNCHANGED <<pc, op, reqHtml, reqOptions, translations, entries, responses>>
  /\ UNCHANGED <<validatorVars, serverVars>>

\* handleMerge: one iteration of the loop over json.translations
MergeApply ==
  /\ pc = "loop" /\ loopIdx <= Len(translations)
  /\ exitCode = <<>>
  /\ LET translation == translations[loopIdx]
         el == findElementByPathHash(dom, translation.id)
         strictMode == reqOptions.strictMode = TRUE
     IN IF el = NotFound
        THEN /\ missingIds' = Append(missingIds, translation.id)
             /\ IF strictMode
                THEN /\ responses' = Append(responses,
                          [Response(422, "VALIDATION_ERROR") EXCEPT
                             !.missingIds = Append(missingIds, translation.id)])
                     /\ pc' = "done"
                     /\ UNCHANGED loopIdx
                ELSE /\ loopIdx' = loopIdx + 1
                     /\ UNCHANGED <<responses, pc>>
             /\ UNCHANGED <<dom, successCount>>
        ELSE /\ dom' = SetInnerHtml(dom, el, translation.text)
             /\ successCount' = successCount + 1
             /\ loopIdx' = loopIdx + 1
             /\ UNCHANGED <<missingIds, responses, pc>>
  /\ UNCHANGED <<op, reqHtml, reqOptions, translations, entries>>
  /\ UNCHANGED <<validatorVars, serverVars>>

\* handleMerge reporting the size of the batch as mergedCount
MergeRespond_CountsBatch ==
  /\ pc = "loop" /\ loopIdx > Len(translations)
  /\ exitCode = <<>>
  /\ LET strictMode == reqOptions.strictMode = TRUE
     IN responses' = Append(responses,
          [Response(200, Absent) EXCEPT
             !.html = OuterHtml(dom.kids[1]),
             !.mergedCount = Len(translations),
             !.missingIds = IF Len(missingIds) > 0 /\ ~strictMode
                            THEN missingIds ELSE Absent])
  /\ pc' = "done"
  /\ UNCHANGED <<op, reqHtml, reqOptions, translations, dom, loopIdx, successCount,
                 missingIds, entries>>
  /\ UNCHANGED <<validatorVars, serverVars>>

\* handleMerge: the 200 response after the loop
MergeRespond ==
  /\ pc = "loop" /\ loopIdx > Len(translations)
  /\ exitCode = <<>>
  /\ LET strictMode == reqOptions.strictMode = TRUE
     IN responses' = Append(responses,
          [Response(200, Absent) EXCEPT
             !.html = OuterHtml(dom.kids[1]),
             !.mergedCount = successCount,
             !.missingIds = IF Len(missingIds) > 0 /\ ~strictMode
                            THEN missingIds ELSE Absent])
  /\ pc' = "done"
  /\ UNCHANGED <<op, reqHtml, reqOptions, translations, dom, loopIdx, successCount,
                 missingIds, entries>>
  /\ UNCHANGED <<validatorVars, serverVars>>

NextExtract == Extract

SpecExtract == InitExtract /\ [][NextExtract]_vars

Next == MergeSafetyCheck \/ MergeLoad \/ MergeApply \/ MergeRespond

Spec == Init /\ [][Next]_vars

(***************************************************************************)
(* Claims about extraction in the native server.                           *)
(***************************************************************************)
Extracted == pc = "done" /\ op = "extract"

ElementsOf(t) == {ElementPositions(t)[k] : k \in 1..Len(ElementPositions(t))}

\* C1: address round trip.  For every element for which extract emitted a
\* segment, findElementByPathHash applied to the unmodified document with
\* the segment's id (generatePathHash(getPath(element))) returns exactly
\* that element.
C1_AddressRoundTrip ==
  Extracted =>
    \A k \in 1..Len(entries) :
      /\ entries[k].id = generatePathHash(getPath(dom, entries[k].el))
      /\ findElementByPathHash(dom, entries[k].id) = entries[k].el

\* C3: minimal-container rule.  A segment is emitted for a container only if
\* none of its descendants is a container, so no segment's element is an
\* ancestor of another segment's element.
C3_MinimalContainer ==
  Extracted =>
    \A k \in 1..Len(entries) :
      /\ \A d \in ElementsOf(dom) :
           IsProperPrefix(entries[k].el, d) => NodeAt(dom, d).name \notin CONTAINER_TAGS
      /\ \A j \in 1..Len(entries) : ~IsProperPrefix(entries[k].el, entries[j].el)

\* the elements with an excluded tag that have content
ExcludedWithContent(t) ==
  {e \in ElementsOf(t) : NodeAt(t, e).name \in EXCLUDED_TAGS /\ NodeAt(t, e).kids # <<>>}

\* C4: excluded subtrees are invisible.  The text of a segment is taken from
\* the children of its element, so no segment's element lies inside an
\* element with an excluded tag, and none contains an excluded element whose
\* content would be serialised into the segment's text.
C4_ExcludedInvisible ==
  Extracted =>
    \A k \in 1..Len(entries) :
      \A e \in ExcludedWithContent(dom) :
        /\ ~IsProperPrefix(e, entries[k].el)
        /\ ~(IsProperPrefix(entries[k].el, e)
             /\ FindSub(entries[k].text, InnerHtml(NodeAt(dom, e)), 1) # 0)

\* the elements that carry one of the ignored classes
IgnoredElements(t, ignoredClasses) ==
  {e \in ElementsOf(t) : hasIgnoredClass(t, e, ignoredClasses)}

\* C5: ignored-class pruning.  No segment is emitted for an element that
\* carries an ignored class or for any of its descendants, and no segment's
\* text is serialised from a subtree that contains such an element.
C5_IgnoredClassPruned ==
  Extracted =>
    \A k \in 1..Len(entries) :
      \A e \in IgnoredElements(dom, reqOptions.ignoredClasses) :
        /\ ~IsPrefix(e, entries[k].el)
        /\ ~IsProperPrefix(entries[k].el, e)

(***************************************************************************)
(* checkUnclosedTags of the native server, one iteration of its while loop *)
(* at a time.                                                              *)
(***************************************************************************)
\* the pieces the fragments of the model are built from
Pieces ==
  { <<"<", "b", ">">>, <<"<", "/", "b", ">">>, <<"<", "i", ">">>, <<"<", "/", "I", ">">>,
    <<"<", "B", ">">>, <<"<", "b", "r", ">">>, <<"<", "b", "/", ">">>,
    <<"<", "i", " ", "/", " ", ">">>,
    <<"<", "s", "t", "r", "o", "n", "g", ">">>, <<"w", "o", "r", "l", "d">> }

RECURSIVE FragmentsOfLength(_)
\* the concatenations of exactly n pieces
FragmentsOfLength(n) ==
  IF n = 0 THEN {<<>>}
  ELSE {f \o p : f \in FragmentsOfLength(n - 1), p \in Pieces}

Fragments == UNION {FragmentsOfLength(n) : n \in 0..MaxPieces}

InitValidator ==
  /\ pc = "scan"
  /\ op = "validate"
  /\ text \in Fragments
  /\ lastIndex = 0
  /\ stack = <<>>
  /\ missingTags = <<>>
  /\ result = Absent
  /\ reqHtml = <<>>
  /\ reqOptions = [safetyCheck |-> TRUE, strictMode |-> FALSE]
  /\ translations = <<>>
  /\ dom = NoDom
  /\ loopIdx = 0
  /\ successCount = 0
  /\ missingIds = <<>>
  /\ entries = <<>>
  /\ responses = <<>>
  /\ ServerRunning

\* one iteration of the while loop: tagRegex.exec found a match
ValidatorScan ==
  /\ pc = "scan"
  /\ LET match == TagRegexExec(text, lastIndex + 1)
     IN /\ match # NoMatch
        /\ LET st == ValidatorStep([stack |-> stack, missingTags |-> missingTags], match)
           IN /\ stack' = st.stack
              /\ missingTags' = st.missingTags
        /\ lastIndex' = match.end
  /\ UNCHANGED <<text, result, requestVars, serverVars>>

\* tagRegex.exec returned null: the return statement
ValidatorReturn ==
  /\ pc = "scan"
  /\ TagRegexExec(text, lastIndex + 1) = NoMatch
  /\ result' = ValidatorResult([stack |-> stack, missingTags |-> missingTags])
  /\ pc' = "returned"
  /\ UNCHANGED <<text, lastIndex, stack, missingTags>>
  /\ UNCHANGED <<op, reqHtml, reqOptions, translations, dom, loopIdx, successCount,
                 missingIds, entries, responses>>
  /\ UNCHANGED serverVars

NextValidator == ValidatorScan \/ ValidatorReturn

SpecValidator == InitValidator /\ [][NextValidator]_vars

(***************************************************************************)
(* Claims about the structural validator.                                  *)
(***************************************************************************)
RECURSIVE TagTokens(_, _)
\* the tag tokens of a fragment that start at or after index from, left to right
TagTokens(s, from) ==
  LET m == TagRegexExec(s, from)
  IN IF m = NoMatch THEN <<>> ELSE <<m>> \o TagTokens(s, m.end + 1)

VoidNames == {<<"b", "r">>, <<"h", "r">>, <<"i", "m", "g">>, <<"i", "n", "p", "u", "t">>,
              <<"m", "e", "t", "a">>, <<"l", "i", "n", "k">>}

TokenIsClosing(tok) == Len(tok.full) >= 2 /\ tok.full[2] = "/"

\* the token ends in "/>", or it is an opening token whose last character
\* before ">" other than spaces is "/"
TokenIsSelfClosing(tok) ==
  LET inner == SubSeq(tok.full, 1, Len(tok.full) - 1)
      last == CHOOSE k \in 0..Len(inner) :
                /\ k = 0 \/ inner[k] # " "
                /\ \A j \in (k + 1)..Len(inner) : inner[j] = " "
  IN \/ inner[Len(inner)] = "/"
     \/ ~TokenIsClosing(tok) /\ last > 0 /\ inner[last] = "/"

\* the positions of a stack that hold the name
Holding(stk, name) == {k \in 1..Len(stk) : stk[k] = name}

Max(S) == CHOOSE k \in S : \A j \in S : j <= k

RemoveAt(stk, k) == [j \in 1..(Len(stk) - 1) |-> IF j < k THEN stk[j] ELSE stk[j + 1]]

RECURSIVE Balance(_, _, _, _)
\* the stack and the unmatched closing names after the tokens k..Len(toks),
\* as the validator is specified
Balance(toks, k, stk, unmatched) ==
  IF k > Len(toks) THEN [stack |-> stk, unmatched |-> unmatched]
  ELSE LET tok == toks[k]
           name == ToLowerCase(tok.name)
       IN IF name \in VoidNames \/ TokenIsSelfClosing(tok)
          THEN Balance(toks, k + 1, stk, unmatched)
          ELSE IF ~TokenIsClosing(tok)
               THEN Balance(toks, k + 1, Append(stk, name), unmatched)
               ELSE IF Holding(stk, name) = {}
                    THEN Balance(toks, k + 1, stk, Append(unmatched, name))
                    ELSE Balance(toks, k + 1, RemoveAt(stk, Max(Holding(stk, name))),
                                 unmatched)

\* the tokens that end at or before index i
TokensUpTo(s, i) == SelectSeq(TagTokens(s, 1), LAMBDA m : m.end <= i)

\* C6: structural validator.  Scanning the tag tokens left to right, void
\* tags and self-closing tokens are ignored, every other opening tag pushes
\* its lowercased name, every closing tag removes the most recent equal name
\* from the stack or is recorded as unmatched; isValid is true iff nothing was
\* unmatched and the stack is empty at the end, and missingTags is the
\* unmatched closing names in scan order followed by the leftover stack in
\* push order.
C6_Validator ==
  op = "validate" =>
    LET b == Balance(TokensUpTo(text, lastIndex), 1, <<>>, <<>>)
    IN /\ stack = b.stack
       /\ missingTags = b.unmatched
       /\ pc = "returned" =>
            /\ TokensUpTo(text, lastIndex) = TagTokens(text, 1)
            /\ result.isValid = (b.unmatched = <<>> /\ b.stack = <<>>)
            /\ result.missingTags = b.unmatched \o b.stack
            /\ result = checkUnclosedTags(text)

StrongWorld == <<"<", "s", "t", "r", "o", "n", "g", ">", "w", "o", "r", "l", "d">>

\* "<strong>world" has been validated: isValid false with ["strong"]
C6_Witness ==
  /\ pc = "returned"
  /\ text = StrongWorld
  /\ result = [isValid |-> FALSE, missingTags |-> << <<"s", "t", "r", "o", "n", "g">> >>]


(***************************************************************************)
(* The Express application: the route POST /api/merge with the parser      *)
(* module (extractTextSegments, mergeTranslations) and the error handler.  *)
(***************************************************************************)
ExpressDocuments ==
  DocumentsOver(MaxMergeNodes, {Label(T_div, NoClass), Label(T_p, NoClass)}, DocTexts)

\* mergeOptionsSchema: the defaults of an absent options object
DefaultMergeOptions == [safetyCheck |-> TRUE, strictMode |-> FALSE]

\* extractTextSegments(html, {}) of the parser module: it is the extraction
\* of the native server
extractTextSegments(html, options) ==
  SegmentsOf(ExtractEntries(CheerioLoad(html), options))

\* the batch of a caller that sends the segments back unchanged
IdentityBatch(html) ==
  LET segments == extractTextSegments(html, DefaultExtractOptions)
  IN [k \in 1..Len(segments) |-> [id |-> segments[k].id, text |-> segments[k].text]]

InitExpress ==
  /\ pc = "route"
  /\ op = "merge"
  /\ \E f \in ExpressDocuments :
       /\ reqHtml = InnerHtml(RootNode(f))
       /\ translations \in Translations(f) \cup {IdentityBatch(InnerHtml(RootNode(f)))}
       /\ Len(translations) >= 1
  /\ reqOptions \in MergeOptionSets
  /\ dom = NoDom
  /\ loopIdx = 0
  /\ successCount = 0
  /\ missingIds = <<>>
  /\ entries = <<>>
  /\ responses = <<>>
  /\ ValidatorIdle
  /\ ServerRunning

\* the route: if (options?.safetyCheck), InvalidStructureError, answered 400
\* by the catch block of the route
RouteSafetyCheck ==
  /\ pc = "route"
  /\ exitCode = <<>>
  /\ IF reqOptions.safetyCheck /\ InvalidTranslations(translations) # <<>>
     THEN /\ responses' = Append(responses, Response(400, "INVALID_STRUCTURE"))
          /\ pc' = "done"
     ELSE /\ pc' = "mergeTranslations"
          /\ UNCHANGED responses
  /\ UNCHANGED <<op, reqHtml, reqOptions, translations, dom, loopIdx, successCount,
                 missingIds, entries>>
  /\ UNCHANGED <<validatorVars, serverVars>>

\* const { safetyCheck = true } = options, where options is the argument
\* { options } of the route: the property is absent, so the default applies
ParserSafetyCheckOption(routeOptions) ==
  LET options == [options |-> routeOptions]
  IN IF "safetyCheck" \in DOMAIN options THEN options.safetyCheck ELSE TRUE

\* mergeTranslations: the safety check; its Error is rethrown by the route
\* and answered by errorHandler with the default 500
ParserSafetyCheck ==
  /\ pc = "mergeTranslations"
  /\ exitCode = <<>>
  /\ IF ParserSafetyCheckOption(reqOptions) /\ InvalidTranslations(translations) # <<>>
     THEN /\ responses' = Append(responses, Response(500, "INTERNAL_ERROR"))
          /\ pc' = "done"
     ELSE /\ pc' = "parserLoad"
          /\ UNCHANGED responses
  /\ UNCHANGED <<op, reqHtml, reqOptions, translations, dom, loopIdx, successCount,
                 missingIds, entries>>
  /\ UNCHANGED <<validatorVars, serverVars>>

\* mergeTranslations: cheerio.load and the initialisation of the counters
ParserLoad ==
  /\ pc = "parserLoad"
  /\ exitCode = <<>>
  /\ dom' = CheerioLoad(reqHtml)
  /\ loopIdx' = 1
  /\ successCount' = 0
  /\ missingIds' = <<>>
  /\ pc' = "parserLoop"
  /\ UNCHANGED <<op, reqHtml, reqOptions, translations, entries, responses>>
  /\ UNCHANGED <<validatorVars, serverVars>>

\* mergeTranslations: one iteration of the loop over translations
ParserApply ==
  /\ pc = "parserLoop" /\ loopIdx <= Len(translations)
  /\ exitCode = <<>>
  /\ LET translation == translations[loopIdx]
         el == findElementByPathHash(dom, translation.id)
     IN IF el = NotFound
        THEN /\ missingIds' = Append(missingIds, translation.id)
             /\ UNCHANGED <<dom, successCount>>
        ELSE /\ dom' = SetInnerHtml(dom, el, translation.text)
             /\ successCount' = successCount + 1
             /\ UNCHANGED missingIds
  /\ loopIdx' = loopIdx + 1
  /\ UNCHANGED <<pc, op, reqHtml, reqOptions, translations, entries, responses>>
  /\ UNCHANGED <<validatorVars, serverVars>>

\* translations.filter(t => mergedHtml.includes(t.text.substring(0, 20))).length
ApproximateMergedCount(mergedHtml, ts) ==
  Len(SelectSeq(ts, LAMBDA t :
        LET prefix == SubSeq(t.text, 1, IF Len(t.text) < 20 THEN Len(t.text) ELSE 20)
        IN prefix = <<>> \/ FindSub(mergedHtml, prefix, 1) # 0))

\* mergeTranslations after the loop, and the rest of the route: the Error of
\* strict mode is answered by errorHandler, the merged HTML by res.json
ParserReturn ==
  /\ pc = "parserLoop" /\ loopIdx > Len(translations)
  /\ exitCode = <<>>
  /\ IF Len(missingIds) > 0 /\ reqOptions.strictMode
     THEN responses' = Append(responses, Response(500, "INTERNAL_ERROR"))
     ELSE LET mergedHtml == OuterHtml(dom.kids[1])
          IN responses' = Append(responses,
               [Response(200, Absent) EXCEPT
                  !.html = mergedHtml,
                  !.mergedCount = ApproximateMergedCount(mergedHtml, translations)])
  /\ pc' = "done"
  /\ UNCHANGED <<op, reqHtml, reqOptions, translations, dom, loopIdx, successCount,
                 missingIds, entries>>
  /\ UNCHANGED <<validatorVars, serverVars>>

NextExpress ==
  RouteSafetyCheck \/ ParserSafetyCheck \/ ParserLoad \/ ParserApply \/ ParserReturn

SpecExpress == InitExpress /\ [][NextExpress]_vars

(***************************************************************************)
(* Claims about the Express merge route.                                   *)
(***************************************************************************)
\* C2: identity merge.  Merging the segments of extract(D) back unchanged
\* with default options is answered with 200 and the tree of D.
C2_IdentityMerge ==
  (/\ op = "merge" /\ pc = "done"
   /\ reqOptions = DefaultMergeOptions
   /\ translations = IdentityBatch(reqHtml)) =>
     /\ Len(responses) = 1
     /\ responses[1].status = 200
     /\ dom = CheerioLoad(reqHtml)
     /\ responses[1].html = OuterHtml(CheerioLoad(reqHtml).kids[1])

\* the fragment is unbalanced in the sense of the validator's specification
Unbalanced(fragment) ==
  LET b == Balance(TagTokens(fragment, 1), 1, <<>>, <<>>)
  IN b.unmatched # <<>> \/ b.stack # <<>>

\* C8: the safety check is caller-toggleable.  A request with
\* options.safetyCheck false that is not in strict mode is merged and
\* answered with 200, also when a fragment of the batch is unbalanced.
C8_SafetyCheckToggleable ==
  (/\ op = "merge" /\ pc = "done"
   /\ reqOptions.safetyCheck = FALSE /\ reqOptions.strictMode = FALSE
   /\ \E k \in 1..Len(translations) :
        /\ Unbalanced(translations[k].text)
        /\ findElementByPathHash(CheerioLoad(reqHtml), translations[k].id) # NotFound) =>
     /\ Len(responses) = 1
     /\ responses[1].status = 200

\* C11: the mergedCount of a successful merge on the Express route equals
\* the number of translation items whose id resolved to an element and
\* whose text was written into it (the successCount of mergeTranslations).
C11_MergedCountExact ==
  (op = "merge" /\ pc = "done" /\ Len(responses) = 1 /\ responses[1].status = 200) =>
     responses[1].mergedCount = successCount

(***************************************************************************)
(* Claims about merge in the native server.                                *)
(***************************************************************************)
StrictMode == reqOptions.strictMode = TRUE

\* C9: strict mode hides partial results.  When strictMode is set and an id
\* of the batch did not resolve, no response is a success and none carries
\* merged HTML, and a finished request has reported the failure.
C9_StrictHidesPartial ==
  (op = "merge" /\ StrictMode /\ missingIds # <<>>) =>
     /\ \A k \in 1..Len(responses) :
          responses[k].status # 200 /\ responses[k].html = Absent
     /\ pc = "done" => Len(responses) = 1

\* strict mode has failed after an earlier translation of the batch was
\* applied to the tree
C9_Witness ==
  /\ op = "merge" /\ pc = "done" /\ StrictMode
  /\ missingIds # <<>> /\ successCount > 0
  /\ dom # CheerioLoad(reqHtml)
  /\ Len(responses) = 1 /\ responses[1].status # 200

\* the unresolved ids the 200 response reports
ReportedMissingIds(r) == IF r.missingIds = Absent THEN <<>> ELSE r.missingIds

C10_State ==
  (op = "merge" /\ ~StrictMode) =>
     /\ pc = "loop" => successCount + Len(missingIds) = loopIdx - 1
     /\ pc = "done" =>
          /\ Len(responses) = 1
          /\ \/ /\ responses[1].status = 400
                /\ reqOptions.safetyCheck # FALSE
                /\ \E k \in 1..Len(translations) : Unbalanced(translations[k].text)
             \/ /\ responses[1].status = 200
                /\ responses[1].mergedCount = successCount
                /\ ReportedMissingIds(responses[1]) = missingIds
                /\ responses[1].mergedCount + Len(ReportedMissingIds(responses[1]))
                     = Len(translations)

C10_Step ==
  (op = "merge" /\ ~StrictMode /\ pc = "loop" /\ loopIdx <= Len(translations)) =>
     LET id == translations[loopIdx].id
     IN /\ loopIdx' = loopIdx + 1
        /\ pc' = "loop"
        /\ IF findElementByPathHash(dom, id) # NotFound
           THEN successCount' = successCount + 1 /\ missingIds' = missingIds
           ELSE successCount' = successCount /\ missingIds' = Append(missingIds, id)

X_para == <<"<", "p", ">", "x", "<", "/", "p", ">">>
BlockTexts == {X_text, X_para}

ReorderDocuments ==
  DocumentsOver(MaxNodes, {Label(T_div, NoClass), Label(T_p, NoClass)}, {<<"a">>})

InitReorder ==
  /\ op = "merge"
  /\ \E f \in ReorderDocuments :
       /\ reqHtml = InnerHtml(RootNode(f))
       /\ translations \in SeqsUpTo([id : KnownIds(f), text : BlockTexts], MaxBatch)
  /\ reqOptions \in MergeOptionSets
  /\ HandlerEntry

SpecReorder == InitReorder /\ [][Next]_vars

\* the loop of handleMerge over a whole batch when strictMode is off: the
\* tree after the items k..Len(ts) have been applied to t in order
RECURSIVE MergeLoop(_, _, _)
MergeLoop(t, ts, k) ==
  IF k > Len(ts) THEN t
  ELSE LET el == findElementByPathHash(t, ts[k].id)
       IN IF el = NotFound THEN MergeLoop(t, ts, k + 1)
          ELSE MergeLoop(SetInnerHtml(t, el, ts[k].text), ts, k + 1)

\* the ids extract returns for the document
ExtractedIds(html) ==
  LET es == ExtractEntries(CheerioLoad(html), DefaultExtractOptions)
  IN {es[k].id : k \in 1..Len(es)}

\* C12: order independence of merge.  For a batch whose ids are pairwise
\* distinct and were all produced by extract on the document, the tree of
\* a completed non-strict merge is the tree every permutation of the batch
\* ends with.
C12_OrderIndependence ==
  (/\ op = "merge" /\ pc = "done" /\ ~StrictMode
   /\ Len(responses) = 1 /\ responses[1].status = 200
   /\ \A i, j \in 1..Len(translations) :
        translations[i].id = translations[j].id => i = j
   /\ \A i \in 1..Len(translations) : translations[i].id \in ExtractedIds(reqHtml)) =>
     \A p \in Permutations(1..Len(translations)) :
        MergeLoop(CheerioLoad(reqHtml),
                  [i \in 1..Len(translations) |-> translations[p[i]]], 1) = dom

(***************************************************************************)
(* The alternative parser module (part_002): its validator, its segment    *)
(* ids and its mergeTranslations, with the error handler that knows its    *)
(* error codes (part_003).                                                 *)
(***************************************************************************)
\* a match of /<([a-zA-Z][a-zA-Z0-9]*)[^>]*>/ that starts exactly at i
OpenTagMatchAt(s, i) ==
  IF i >= Len(s) \/ s[i] # "<" \/ ~IsAlpha(s[i + 1]) THEN NoMatch
  ELSE LET ne == AlnumRunEnd(s, i + 1)
           g == IndexOfFrom(s, ">", ne + 1)
       IN IF g = 0 THEN NoMatch
          ELSE [start |-> i, end |-> g, full |-> SubSeq(s, i, g),
                name |-> SubSeq(s, i + 1, ne)]

\* a match of /<\/([a-zA-Z][a-zA-Z0-9]*)>/ that starts exactly at i
CloseTagMatchAt(s, i) ==
  IF i + 2 > Len(s) \/ s[i] # "<" \/ s[i + 1] # "/" \/ ~IsAlpha(s[i + 2]) THEN NoMatch
  ELSE LET ne == AlnumRunEnd(s, i + 2)
       IN IF ne + 1 > Len(s) \/ s[ne + 1] # ">" THEN NoMatch
          ELSE [start |-> i, end |-> ne + 1, full |-> SubSeq(s, i, ne + 1),
                name |-> SubSeq(s, i + 2, ne)]

RECURSIVE MatchAll(_, _, _)
\* text.match(pattern) || [] for a global pattern: the matches from index
\* from on, left to right, closing selects the pattern
MatchAll(s, from, closing) ==
  IF from > Len(s) THEN <<>>
  ELSE LET m == IF closing THEN CloseTagMatchAt(s, from) ELSE OpenTagMatchAt(s, from)
       IN IF m = NoMatch THEN MatchAll(s, from + 1, closing)
          ELSE <<m>> \o MatchAll(s, m.end + 1, closing)

voidTags ==
  {<<"i", "m", "g">>, <<"b", "r">>, <<"h", "r">>, <<"i", "n", "p", "u", "t">>,
   <<"m", "e", "t", "a">>, <<"l", "i", "n", "k">>, <<"a", "r", "e", "a">>,
   <<"b", "a", "s", "e">>, <<"c", "o", "l">>, <<"c", "o", "m", "m", "a", "n", "d">>,
   <<"e", "m", "b", "e", "d">>, <<"k", "e", "y", "g", "e", "n">>,
   <<"p", "a", "r", "a", "m">>, <<"s", "o", "u", "r", "c", "e">>,
   <<"t", "r", "a", "c", "k">>, <<"w", "b", "r">>}

\* the names the forEach over openMatches counts, in order
CountedOpenNames(fragment) ==
  LET counted == SelectSeq(MatchAll(fragment, 1, FALSE), LAMBDA m :
                   ~EndsWith(m.full, <<"/", ">">>) /\ ToLowerCase(m.name) \notin voidTags)
  IN [k \in 1..Len(counted) |-> counted[k].name]

CountOf(names, name) == Cardinality({k \in 1..Len(names) : names[k] = name})

\* checkUnclosedTags of part_002: per name, more opening than closing tags;
\* missingTags in the insertion order of the Map openTags
checkUnclosedTags_part002(fragment) ==
  LET opens == CountedOpenNames(fragment)
      closeMatches == MatchAll(fragment, 1, TRUE)
      closes == [k \in 1..Len(closeMatches) |-> closeMatches[k].name]
      firsts == SelectSeq([k \in 1..Len(opens) |-> k],
                          LAMBDA k : \A j \in 1..(k - 1) : opens[j] # opens[k])
      missing == SelectSeq([k \in 1..Len(firsts) |-> opens[firsts[k]]],
                           LAMBDA name : CountOf(opens, name) > CountOf(closes, name))
  IN [isValid |-> Len(missing) = 0, missingTags |-> missing]

RECURSIVE SegmentIdParts(_, _)
\* the while loop of generateSegmentId: one part per element whose parent is
\* not the root
SegmentIdParts(t, pos) ==
  IF Len(pos) <= 1 THEN <<>>
  ELSE SegmentIdParts(t, Parent(pos))
         \o <<NodeAt(t, pos).name \o <<"[">> \o NatToString(SiblingIndex(t, pos)) \o <<"]">>>>

\* generateSegmentId with an index that counts the siblings of every tag
generateSegmentId_AllSiblings(t, pos) ==
  generatePathHash(Join(<<T_html>> \o
    [k \in 1..(Len(pos) - 1) |->
       LET e == SubSeq(pos, 1, k + 1)
       IN NodeAt(t, e).name \o <<"[">> \o NatToString(SiblingIndex_AnyTag(t, e)) \o <<"]">>],
    <<".">>))

\* generateSegmentId(element, $) of part_002
generateSegmentId(t, pos) ==
  generatePathHash(Join(<<T_html>> \o SegmentIdParts(t, pos), <<".">>))

\* part.match(/^(\w+)\[(\d+)\]$/): the tag name and the index, or NoMatch
PartMatch(part) ==
  LET open == IndexOfFrom(part, "[", 1)
      tagName == SubSeq(part, 1, open - 1)
      index == SubSeq(part, open + 1, Len(part) - 1)
  IN IF /\ open > 1 /\ Len(part) > open + 1 /\ part[Len(part)] = "]"
        /\ \A k \in 1..Len(tagName) : IsWordChar(tagName[k])
        /\ \A k \in 1..Len(index) : IsDigit(index[k])
     THEN [tagName |-> tagName, index |-> ParseInt(index)]
     ELSE NoMatch

\* the inner for loop over $current.children(): the child selected, or the
\* current element when the loop ends without a break
TraverseStep(t, pos, m) ==
  LET children == SameTagChildren(t, pos, m.tagName)
  IN IF Len(children) > m.index THEN children[m.index + 1] ELSE pos

RECURSIVE Traverse(_, _, _)
\* the for loop over pathParts from index 1: the element reached, NotFound
\* when a part does not match the pattern
Traverse(t, pos, parts) ==
  IF parts = <<>> THEN pos
  ELSE LET m == PartMatch(Head(parts))
       IN IF m = NoMatch THEN NotFound
          ELSE Traverse(t, TraverseStep(t, pos, m), Tail(parts))

\* the element a translation id selects in mergeTranslations of part_002,
\* starting from $.root()
ResolveSegmentId(t, id) == Traverse(t, <<>>, Tail(Split(B64Decode(id), ".")))

\* the tag sets of part_002: those of the native server and a few more
T_b == <<"b">>

CONTAINER_TAGS_part002 == CONTAINER_TAGS \cup {<<"f", "o", "r", "m">>}

INLINE_TAGS_part002 ==
  {<<"a">>, T_b, <<"s", "t", "r", "o", "n", "g">>, <<"i">>, <<"e", "m">>, <<"u">>,
   T_span, <<"m", "a", "r", "k">>, <<"s", "m", "a", "l", "l">>, <<"s", "u", "b">>,
   <<"s", "u", "p">>, <<"t", "i", "m", "e">>, T_code, <<"q">>, <<"s">>,
   <<"s", "t", "r", "i", "k", "e">>, <<"d", "e", "l">>, <<"i", "n", "s">>,
   <<"a", "b", "b", "r">>, <<"a", "c", "r", "o", "n", "y", "m">>,
   <<"c", "i", "t", "e">>, <<"d", "f", "n">>}

EXCLUDED_TAGS_part002 ==
  EXCLUDED_TAGS \cup {<<"f", "o", "r", "m">>, <<"i", "n", "p", "u", "t">>,
                      <<"t", "e", "x", "t", "a", "r", "e", "a">>,
                      <<"s", "e", "l", "e", "c", "t">>, <<"b", "u", "t", "t", "o", "n">>}

RECURSIVE RemoveExcluded(_)
\* EXCLUDED_TAGS.forEach(tag => $(tag).remove())
RemoveExcluded(n) ==
  LET keep == SelectSeq(n.kids, LAMBDA k : ~(IsTag(k) /\ k.name \in EXCLUDED_TAGS_part002))
  IN [n EXCEPT !.kids = [j \in 1..Len(keep) |-> RemoveExcluded(keep[j])]]

RECURSIVE TextContent(_)
\* $element.text()
TextContent(n) ==
  IF n.type = "text" THEN n.data
  ELSE Flatten([k \in 1..Len(n.kids) |-> TextContent(n.kids[k])])

\* the loop over $element.contents(): each text child on its own (collapsed
\* and trimmed unless preserveWhitespace), each inline child as markup, other
\* children ignored; then the trim of the whole
Part2SegmentText(n, preserveWhitespace) ==
  Trim(Flatten([k \in 1..Len(n.kids) |->
         LET child == n.kids[k]
         IN IF child.type = "text"
            THEN (IF preserveWhitespace THEN child.data ELSE Trim(CollapseWs(child.data, 1)))
            ELSE IF child.name \in INLINE_TAGS_part002 THEN OuterHtml(child)
            ELSE <<>>]))

\* the tests of the callback of $('*').each that come before the segment id:
\* container tag, no ignored class, some text
Part2Candidate(t, pos, options) ==
  /\ NodeAt(t, pos).name \in CONTAINER_TAGS_part002
  /\ ~hasIgnoredClass(t, pos, options.ignoredClasses)
  /\ Trim(TextContent(NodeAt(t, pos))) # <<>>

\* extractTextSegments of part_002 on the tree without its excluded
\* elements: of the candidates, the first one of each id (processedIds),
\* and of those the ones whose segment text is not empty
Part2ExtractEntries(t, options) ==
  LET ps == SelectSeq(ElementPositions(t), LAMBDA pos : Part2Candidate(t, pos, options))
      first == SelectSeq(ps, LAMBDA pos :
                 \A k \in 1..Len(ps) :
                   generateSegmentId(t, ps[k]) = generateSegmentId(t, pos) =>
                     ~(\E j \in 1..Len(ps) : ps[j] = pos /\ k < j))
      emitted == SelectSeq(first, LAMBDA pos :
                   Part2SegmentText(NodeAt(t, pos), options.preserveWhitespace) # <<>>)
  IN [k \in 1..Len(emitted) |->
        LET segId == generateSegmentId(t, emitted[k])
        IN [id |-> segId,
            text |-> Part2SegmentText(NodeAt(t, emitted[k]), options.preserveWhitespace),
            path |-> B64Decode(segId), tag |-> NodeAt(t, emitted[k]).name,
            el |-> emitted[k]]]

\* extractTextSegments(html, options) of part_002
extractTextSegments_part002(html, options) ==
  Part2ExtractEntries(RemoveExcluded(CheerioLoad(html)), options)

X_stray == <<"x", "<", "/", "b", ">">>
Part2Texts == {X_text, X_unclosed, X_stray}

\* the ids a caller holds for a document: those of the segments that
\* extractTextSegments of part_002 returns for it, and one in the format of
\* the other parser
Part2Ids(f) ==
  LET es == extractTextSegments_part002(InnerHtml(RootNode(f)), DefaultExtractOptions)
  IN {es[k].id : k \in 1..Len(es)} \cup {UNRESOLVED_ID}

InitPart2 ==
  /\ pc = "check"
  /\ op = "merge"
  /\ \E f \in MergeDocuments :
       /\ reqHtml = InnerHtml(RootNode(f))
       /\ translations \in SeqsUpTo([id : Part2Ids(f), text : Part2Texts], MaxBatch)
  /\ reqOptions \in [safetyCheck : BOOLEAN, strictMode : {FALSE}]
  /\ dom = NoDom
  /\ loopIdx = 0
  /\ successCount = 0
  /\ missingIds = <<>>
  /\ entries = <<>>
  /\ responses = <<>>
  /\ ValidatorIdle
  /\ ServerRunning

\* mergeTranslations of part_002 up to the safety check: validateHtmlStructure
\* is true of every string (cheerio.load does not throw); the UNCLOSED_TAGS
\* error is answered by errorHandler with 400 INVALID_STRUCTURE
Part2SafetyCheck ==
  /\ pc = "check"
  /\ LET opts == [safetyCheck |-> reqOptions.safetyCheck]
         rejected == SelectSeq(translations, LAMBDA trans :
                       /\ trans.text # <<>>
                       /\ LET check == checkUnclosedTags_part002(trans.text)
                          IN ~check.isValid /\ Len(check.missingTags) > 0)
     IN IF opts.safetyCheck /\ rejected # <<>>
        THEN /\ responses' = Append(responses, Response(400, "INVALID_STRUCTURE"))
             /\ pc' = "done"
        ELSE /\ pc' = "load"
             /\ UNCHANGED responses
  /\ UNCHANGED <<op, reqHtml, reqOptions, translations, dom, loopIdx, successCount,
                 missingIds, entries>>
  /\ UNCHANGED <<validatorVars, serverVars>>

\* mergeTranslations of part_002: cheerio.load, the translation map and the
\* counters
Part2Load ==
  /\ pc = "load"
  /\ dom' = CheerioLoad(reqHtml)
  /\ loopIdx' = 1
  /\ successCount' = 0
  /\ missingIds' = <<>>
  /\ pc' = "forEach"
  /\ UNCHANGED <<op, reqHtml, reqOptions, translations, entries, responses>>
  /\ UNCHANGED <<validatorVars, serverVars>>

\* translationMap.get(id): the text of the last translation with the id
TranslationMapGet(ts, id) ==
  ts[Max({k \in 1..Len(ts) : ts[k].id = id})].text

\* mergeTranslations of part_002: one call of the forEach callback
Part2Apply ==
  /\ pc = "forEach" /\ loopIdx <= Len(translations)
  /\ LET id == translations[loopIdx].id
         current == ResolveSegmentId(dom, id)
     IN IF current # NotFound
        THEN /\ dom' = SetInnerHtml(dom, current, TranslationMapGet(translations, id))
             /\ successCount' = successCount + 1
             /\ UNCHANGED missingIds
        ELSE /\ missingIds' = Append(missingIds, id)
             /\ UNCHANGED <<dom, successCount>>
  /\ loopIdx' = loopIdx + 1
  /\ UNCHANGED <<pc, op, reqHtml, reqOptions, translations, entries, responses>>
  /\ UNCHANGED <<validatorVars, serverVars>>

\* mergeTranslations of part_002 after the forEach: the MISSING_SEGMENTS
\* error, answered by errorHandler with 422, or the return of $.html()
Part2Return ==
  /\ pc = "forEach" /\ loopIdx > Len(translations)
  /\ IF Len(missingIds) > 0
     THEN responses' = Append(responses,
            [Response(422, "MISSING_SEGMENTS") EXCEPT !.missingIds = missingIds])
     ELSE responses' = Append(responses,
            [Response(200, Absent) EXCEPT !.html = InnerHtml(dom)])
  /\ pc' = "done"
  /\ UNCHANGED <<op, reqHtml, reqOptions, translations, dom, loopIdx, successCount,
                 missingIds, entries>>
  /\ UNCHANGED <<validatorVars, serverVars>>

NextPart2 == Part2SafetyCheck \/ Part2Load \/ Part2Apply \/ Part2Return

SpecPart2 == InitPart2 /\ [][NextPart2]_vars

(***************************************************************************)
(* Claims about the order of validation and mutation.                      *)
(***************************************************************************)
\* C7: validation precedes mutation.  When the safety check is enabled and a
\* fragment of the batch is unbalanced, no translation is ever applied to
\* the tree and the request ends with INVALID_STRUCTURE.
C7_ValidationPrecedesMutation ==
  (/\ op = "merge" /\ reqOptions.safetyCheck # FALSE
   /\ \E k \in 1..Len(translations) : Unbalanced(translations[k].text)) =>
     /\ dom \in {NoDom, CheerioLoad(reqHtml)}
     /\ successCount = 0
     /\ pc = "done" => responses = <<Response(400, "INVALID_STRUCTURE")>>

(***************************************************************************)
(* Claims about the effect of one applied translation.                     *)
(***************************************************************************)
\* the element of t the id is the address of: the id extract of the native
\* server, or generateSegmentId of part_002, gives to e
Addresses(t, id, e) ==
  \/ id = generatePathHash(getPath(t, e))
  \/ id = generateSegmentId(t, e)

\* C13: frame of Replace.  A step that applies one resolved translation
\* replaces only the children of the element the id addresses: the tree
\* after the step is the tree before it with new children for that element,
\* so its tag and attributes, its siblings, its ancestors and every other
\* subtree are unchanged.
C13_ReplaceFrame ==
  [][(op = "merge" /\ successCount' = successCount + 1) =>
       \E e \in ElementsOf(dom) :
         /\ Addresses(dom, translations[loopIdx].id, e)
         /\ IsPosition(dom', e)
         /\ dom' = SetKids(dom, e, NodeAt(dom', e).kids)]_vars

(***************************************************************************)
(* The merge of the jsdom variant (POST /merge answering transhtml).  Its  *)
(* code is not among the sources; the README documents its result and the  *)
(* specification its Append-Bilingual mode.  The handler is the native     *)
(* merge handler with the step of the loop applying that mode.             *)
(***************************************************************************)
\* Append-Bilingual: the existing children stay and one wrapper element is
\* appended, holding a line break and the parsed translated fragment
AppendBilingual(t, pos, s) ==
  SetKids(t, pos,
    Append(NodeAt(t, pos).kids,
           Element(T_span, NoClass, <<Element(T_br, NoClass, <<>>)>> \o ParseFragment(s))))

\* one iteration of the loop over the translations in Append-Bilingual mode
MergeAppend ==
  /\ pc = "loop" /\ loopIdx <= Len(translations)
  /\ LET translation == translations[loopIdx]
         el == findElementByPathHash(dom, translation.id)
         strictMode == reqOptions.strictMode = TRUE
     IN IF el = NotFound
        THEN /\ missingIds' = Append(missingIds, translation.id)
             /\ IF strictMode
                THEN /\ responses' = Append(responses,
                          [Response(422, "VALIDATION_ERROR") EXCEPT
                             !.missingIds = Append(missingIds, translation.id)])
                     /\ pc' = "done"
                     /\ UNCHANGED loopIdx
                ELSE /\ loopIdx' = loopIdx + 1
                     /\ UNCHANGED <<responses, pc>>
             /\ UNCHANGED <<dom, successCount>>
        ELSE /\ dom' = AppendBilingual(dom, el, translation.text)
             /\ successCount' = successCount + 1
             /\ loopIdx' = loopIdx + 1
             /\ UNCHANGED <<missingIds, responses, pc>>
  /\ UNCHANGED <<op, reqHtml, reqOptions, translations, entries>>
  /\ UNCHANGED <<validatorVars, serverVars>>

NextAppend == MergeSafetyCheck \/ MergeLoad \/ MergeAppend \/ MergeRespond

SpecAppend == Init /\ [][NextAppend]_vars

T_bracket == <<"d", "i", "v", "[", "0", "]", ".", "p">>

AddressDocuments ==
  DocumentsOver(MaxNodes, {Label(T_div, NoClass), Label(T_p, NoClass),
                           Label(T_bracket, NoClass)}, {<<"a">>})

InitAddress ==
  /\ op = "extract"
  /\ \E f \in AddressDocuments : reqHtml = InnerHtml(RootNode(f))
  /\ reqOptions \in ExtractOptionSets
  /\ translations = <<>>
  /\ HandlerEntry

SpecAddress == InitAddress /\ [][NextExtract]_vars

\* C15: address uniqueness.  The ids of the segments of one extract result
\* are pairwise distinct, and two different elements of the document never
\* receive the same address, from getPath or from generateSegmentId.
C15_AddressUniqueness ==
  Extracted =>
     /\ \A i, j \in 1..Len(entries) : entries[i].id = entries[j].id => i = j
     /\ \A e1, e2 \in ElementsOf(dom) :
          e1 # e2 => /\ getPath(dom, e1) # getPath(dom, e2)
                     /\ generateSegmentId(dom, e1) # generateSegmentId(dom, e2)

\* the same-tag element siblings that precede the element at pos
PrecedingSameTag(t, pos) ==
  {Parent(pos) \o <<k>> : k \in {j \in 1..(pos[Len(pos)] - 1) :
      LET sib == NodeAt(t, Parent(pos)).kids[j]
      IN IsTag(sib) /\ sib.name = NodeAt(t, pos).name}}

\* the first two elements of a tag under one parent
FirstTwoOfTag(t, e1, e2) ==
  /\ Len(e1) >= 3 /\ Parent(e1) = Parent(e2)
  /\ NodeAt(t, e1).name = NodeAt(t, e2).name
  /\ PrecedingSameTag(t, e1) = {}
  /\ PrecedingSameTag(t, e2) = {e1}

\* a and b are one prefix followed by tag[0] and by tag[1]
DifferInOrdinalOnly(a, b, tag) ==
  LET s0 == tag \o <<"[", "0", "]">>
      s1 == tag \o <<"[", "1", "]">>
  IN /\ EndsWith(a, s0) /\ EndsWith(b, s1)
     /\ SubSeq(a, 1, Len(a) - Len(s0)) = SubSeq(b, 1, Len(b) - Len(s1))

RECURSIVE Retext(_)
\* the tree with the content of every text node replaced
Retext(n) ==
  IF n.type = "text" THEN TextNode(<<"z", "z">>)
  ELSE [n EXCEPT !.kids = [k \in 1..Len(n.kids) |-> Retext(n.kids[k])]]

\* C16: same-tag siblings.  The first two elements of a tag under one parent
\* receive addresses that are identical except for the ordinal of the final
\* step, 0 for the first and 1 for the second, from getPath and from
\* generateSegmentId; the addresses are the same when every text of the
\* document is replaced.
C16_SameTagSiblings ==
  Extracted =>
    \A e1, e2 \in ElementsOf(dom) :
      FirstTwoOfTag(dom, e1, e2) =>
        /\ DifferInOrdinalOnly(getPath(dom, e1), getPath(dom, e2), NodeAt(dom, e1).name)
        /\ DifferInOrdinalOnly(B64Decode(generateSegmentId(dom, e1)),
                               B64Decode(generateSegmentId(dom, e2)), NodeAt(dom, e1).name)
        /\ \A e \in {e1, e2} :
             /\ getPath(Retext(dom), e) = getPath(dom, e)
             /\ generateSegmentId(Retext(dom), e) = generateSegmentId(dom, e)

\* extract has answered for a document such as <p>a</p><p></p>: two
\* siblings of one tag, the first of them emitted as a segment
C16_Witness ==
  /\ Extracted
  /\ \E e1, e2 \in ElementsOf(dom) :
       /\ FirstTwoOfTag(dom, e1, e2)
       /\ \E k \in 1..Len(entries) : entries[k].el = e1

\* the tree without the element at r and its subtree
RemoveElement(t, r) ==
  LET ks == NodeAt(t, Parent(r)).kids
      k == r[Len(r)]
  IN SetKids(t, Parent(r), SubSeq(ks, 1, k - 1) \o SubSeq(ks, k + 1, Len(ks)))

\* the position, in the tree without r, of the node that is at n with r
PositionWithout(n, r) ==
  IF /\ Len(n) >= Len(r)
     /\ SubSeq(n, 1, Len(r) - 1) = Parent(r)
     /\ n[Len(r)] > r[Len(r)]
  THEN [n EXCEPT ![Len(r)] = n[Len(r)] - 1]
  ELSE n

\* r is neither n, nor an ancestor of n, nor a same-tag sibling that
\* precedes n or an ancestor of n
Unrelated(t, n, r) ==
  /\ ~IsPrefix(r, n)
  /\ \A k \in 1..Len(n) : r \notin PrecedingSameTag(t, SubSeq(n, 1, k))

\* C17: address stability.  Removing an element r from the document, or
\* inserting it into the document without it, does not change the address
\* of an element n, and the address n had before still resolves to n,
\* provided r is not an ancestor of n and not a same-tag sibling preceding
\* n or one of n's ancestors.
C17_AddressStability ==
  Extracted =>
    \A n, r \in ElementsOf(dom) :
      (Len(r) >= 3 /\ Unrelated(dom, n, r)) =>
        LET without == RemoveElement(dom, r)
            m == PositionWithout(n, r)
        IN /\ getPath(without, m) = getPath(dom, n)
           /\ findElementByPathHash(without, generatePathHash(getPath(dom, n))) = m
           /\ findElementByPathHash(dom, generatePathHash(getPath(without, m))) = n

(***************************************************************************)
(* Resolution of arbitrary ids: merge requests of one translation whose id *)
(* is the encoding of a path a caller wrote by hand.                       *)
(***************************************************************************)
\* html.body.p[0], html.body.p[1], html.body.p[-1], html.body.p[x],
\* html.body.p[], html.body.q[0], html.body.p, html.body.div[0].p[0],
\* html.body.p[0].p[0], html.p[0]
ResolvePaths ==
  {<<"h", "t", "m", "l", ".", "b", "o", "d", "y", ".", "p", "[", "0", "]">>,
   <<"h", "t", "m", "l", ".", "b", "o", "d", "y", ".", "p", "[", "1", "]">>,
   <<"h", "t", "m", "l", ".", "b", "o", "d", "y", ".", "p", "[", "-", "1", "]">>,
   <<"h", "t", "m", "l", ".", "b", "o", "d", "y", ".", "p", "[", "x", "]">>,
   <<"h", "t", "m", "l", ".", "b", "o", "d", "y", ".", "p", "[", "]">>,
   <<"h", "t", "m", "l", ".", "b", "o", "d", "y", ".", "q", "[", "0", "]">>,
   <<"h", "t", "m", "l", ".", "b", "o", "d", "y", ".", "p">>,
   <<"h", "t", "m", "l", ".", "b", "o", "d", "y", ".", "d", "i", "v", "[", "0", "]", ".", "p", "[", "0", "]">>,
   <<"h", "t", "m", "l", ".", "b", "o", "d", "y", ".", "p", "[", "0", "]", ".", "p", "[", "0", "]">>,
   <<"h", "t", "m", "l", ".", "p", "[", "0", "]">>}

InitResolve ==
  /\ op = "merge"
  /\ \E f \in MergeDocuments : reqHtml = InnerHtml(RootNode(f))
  /\ \E path \in ResolvePaths :
       translations = <<[id |-> generatePathHash(path), text |-> X_text]>>
  /\ reqOptions \in MergeOptionSets
  /\ HandlerEntry

SpecResolve == InitResolve /\ [][Next]_vars

\* the tag a path step names: the step up to its first [
StepTag(part) ==
  LET o == IndexOfFrom(part, "[", 1)
  IN IF o = 0 THEN part ELSE SubSeq(part, 1, o - 1)

\* the ordinal a path step names: the number written between its first [
\* and the ] that follows, 0 for a step without [
StepOrdinal(part) ==
  LET o == IndexOfFrom(part, "[", 1)
      c == IF o = 0 THEN 0 ELSE IndexOfFrom(part, "]", o + 1)
  IN IF o = 0 THEN 0
     ELSE ParseInt(SubSeq(part, o + 1, IF c = 0 THEN Len(part) ELSE c - 1))

RECURSIVE FailingStep(_, _, _)
\* some step of the path, replayed from the node at pos, names a tag with no
\* child of that tag or an ordinal that is not a number, negative, or not
\* less than the number of children of that tag
FailingStep(t, pos, parts) ==
  IF parts = <<>> THEN FALSE
  ELSE LET ofTag == SameTagChildren(t, pos, StepTag(Head(parts)))
           ordinal == StepOrdinal(Head(parts))
       IN IF Len(ofTag) = 0 \/ ordinal = NaN \/ ordinal < 0 \/ ordinal >= Len(ofTag)
          THEN TRUE
          ELSE FailingStep(t, ofTag[ordinal + 1], Tail(parts))

\* C18: resolution failure in the native server.  When a step of the decoded
\* path of an id fails, findElementByPathHash returns the empty result: the
\* merge step for that id writes into no element and reports the id missing.
C18_ResolutionFailure ==
  [][(/\ op = "merge" /\ pc = "loop" /\ loopIdx <= Len(translations)
      /\ FailingStep(dom, <<>>, Split(B64Decode(translations[loopIdx].id), "."))) =>
       /\ findElementByPathHash(dom, translations[loopIdx].id) = NotFound
       /\ dom' = dom
       /\ successCount' = successCount
       /\ missingIds' = Append(missingIds, translations[loopIdx].id)]_vars

\* the id of html.body.p[-1] has been reported missing for a document that
\* has a p under body
C18_Witness ==
  /\ op = "merge" /\ pc = "done"
  /\ SameTagChildren(dom, <<1, 2>>, T_p) # <<>>
  /\ missingIds = <<generatePathHash(<<"h", "t", "m", "l", ".", "b", "o", "d", "y", ".",
                                       "p", "[", "-", "1", "]">>)>>

(***************************************************************************)
(* Claims about extraction and merge of part_002.                          *)
(***************************************************************************)
\* C19: extraction and merge agree on addressing in part_002.  For a segment
\* that extractTextSegments emits for the document, mergeTranslations given
\* the segment's id on the same document writes the translated text into
\* the children of the element the segment was extracted from, and into no
\* other node.
C19_ExtractMergeAgree ==
  [][(/\ op = "merge" /\ pc = "forEach" /\ loopIdx <= Len(translations)
      /\ dom = CheerioLoad(reqHtml) /\ RemoveExcluded(dom) = dom) =>
       LET id == translations[loopIdx].id
           es == extractTextSegments_part002(reqHtml, DefaultExtractOptions)
       IN \A k \in 1..Len(es) :
            es[k].id = id =>
              dom' = SetInnerHtml(dom, es[k].el, TranslationMapGet(translations, id))]_vars

\* the documents submitted to extractTextSegments of part_002: containers,
\* an inline element and text with and without a leading space
Part2Documents ==
  DocumentsOver(MaxNodes, {Label(T_div, NoClass), Label(T_p, NoClass),
                           Label(T_b, NoClass)}, DocTexts)

InitPart2Extract ==
  /\ op = "extract"
  /\ \E f \in Part2Documents : reqHtml = InnerHtml(RootNode(f))
  /\ reqOptions \in ExtractOptionSets
  /\ translations = <<>>
  /\ HandlerEntry

\* extractTextSegments of part_002, from cheerio.load to return segments
Part2Extract ==
  /\ pc = "parsed" /\ op = "extract"
  /\ LET t == RemoveExcluded(CheerioLoad(reqHtml))
     IN /\ dom' = t
        /\ entries' = Part2ExtractEntries(t, reqOptions)
  /\ pc' = "done"
  /\ UNCHANGED <<op, reqHtml, reqOptions, translations, loopIdx, successCount,
                 missingIds, responses>>
  /\ UNCHANGED <<validatorVars, serverVars>>

NextPart2Extract == Part2Extract

SpecPart2Extract == InitPart2Extract /\ [][NextPart2Extract]_vars

\* the children of the element are text and inline elements only
InlineContentOnly(n) ==
  \A k \in 1..Len(n.kids) :
    n.kids[k].type = "text" \/ n.kids[k].name \in INLINE_TAGS_part002

\* the element has children and all of them are container elements
ContainersOnly(n) ==
  /\ n.kids # <<>>
  /\ \A k \in 1..Len(n.kids) : IsTag(n.kids[k]) /\ n.kids[k].name \in CONTAINER_TAGS

\* C20: segment text.  With preserve_whitespace unset, the text of a segment
\* whose container holds text and inline elements is the serialisation of
\* the container's children with every white-space run collapsed to one
\* space and the outer edges trimmed, so a space between a text and an
\* inline element is kept; and a container whose children are all
\* containers, like the div of <div><h1>..</h1><p>..</p></div>, is not a
\* segment.
C20_SegmentText ==
  (Extracted /\ reqOptions.preserveWhitespace = FALSE) =>
     \A k \in 1..Len(entries) :
        LET n == NodeAt(dom, entries[k].el)
        IN /\ InlineContentOnly(n) =>
                entries[k].text = normalizeWhitespace(InnerHtml(n))
           /\ ~ContainersOnly(n)

(***************************************************************************)
(* The Express application: authentication of the routes POST /api/extract *)
(* and POST /api/merge.                                                    *)
(***************************************************************************)
\* the Authorization headers a client may send
AuthHeaders ==
  {Absent,
   AUTH_HEADER_PREFIX \o API_TOKEN,
   <<"B", "e", "a", "r", "e", "r", " ", "b", "a", "d">>,
   <<"b", "e", "a", "r", "e", "r", " ", "t", "o", "k">>,
   AUTH_HEADER_PREFIX,
   API_TOKEN}

\* authMiddleware: TRUE when it calls next(), FALSE when it throws
\* UnauthorizedError
authMiddleware(authHeader) ==
  IF authHeader = Absent \/ authHeader = <<>> \/ ~StartsWith(authHeader, AUTH_HEADER_PREFIX)
  THEN FALSE
  ELSE LET token == SubSeq(authHeader, 8, Len(authHeader))
       IN token # <<>> /\ token = API_TOKEN

InitExpressApi ==
  /\ op \in {"extract", "merge"}
  /\ pc = IF op = "merge" THEN "auth" ELSE "extractRoute"
  /\ \E f \in ExpressDocuments :
       /\ reqHtml = InnerHtml(RootNode(f))
       /\ translations \in IF op = "merge" THEN Translations(f) \ {<<>>} ELSE {<<>>}
  /\ reqOptions \in IF op = "merge" THEN MergeOptionSets ELSE ExtractOptionSets
  /\ dom = NoDom
  /\ loopIdx = 0
  /\ successCount = 0
  /\ missingIds = <<>>
  /\ entries = <<>>
  /\ responses = <<>>
  /\ ValidatorIdle
  /\ authorization \in AuthHeaders
  /\ body = "json"
  /\ ProcessRunning

\* router.post('/api/merge', authMiddleware, ...): the UnauthorizedError is
\* answered by errorHandler with 403 UNAUTHORIZED
RouteMergeAuth ==
  /\ pc = "auth" /\ op = "merge"
  /\ exitCode = <<>>
  /\ IF authMiddleware(authorization)
     THEN /\ pc' = "route"
          /\ UNCHANGED responses
     ELSE /\ responses' = Append(responses, Response(403, "UNAUTHORIZED"))
          /\ pc' = "done"
  /\ UNCHANGED <<op, reqHtml, reqOptions, translations, dom, loopIdx, successCount,
                 missingIds, entries>>
  /\ UNCHANGED <<validatorVars, serverVars>>

\* router.post('/api/extract', validateRequest(extractRequestSchema), handler):
\* no authentication middleware is registered on the route
RouteExtract ==
  /\ pc = "extractRoute" /\ op = "extract"
  /\ exitCode = <<>>
  /\ IF Trim(reqHtml) = <<>>
     THEN /\ responses' = Append(responses, Response(400, "INVALID_STRUCTURE"))
          /\ UNCHANGED <<dom, entries>>
     ELSE LET t == CheerioLoad(reqHtml)
              es == ExtractEntries(t, reqOptions)
          IN /\ dom' = t
             /\ entries' = es
             /\ responses' = Append(responses,
                  [Response(200, Absent) EXCEPT !.segments = SegmentsOf(es)])
  /\ pc' = "done"
  /\ UNCHANGED <<op, reqHtml, reqOptions, translations, loopIdx, successCount, missingIds>>
  /\ UNCHANGED <<validatorVars, serverVars>>

NextExpressApi ==
  \/ RouteMergeAuth
  \/ RouteExtract
  \/ RouteSafetyCheck
  \/ ParserSafetyCheck
  \/ ParserLoad
  \/ ParserApply
  \/ ParserReturn

SpecExpressApi == InitExpressApi /\ [][NextExpressApi]_vars

\* the header holds the configured token
CarriesToken(authHeader) ==
  authHeader # Absent /\ EndsWith(authHeader, API_TOKEN)

\* C21: bearer authentication covers all API operations.  A POST to the
\* extract or merge endpoint whose Authorization header does not carry the
\* configured token is answered with 403 only, the HTML is never parsed and
\* no segments or merged HTML are returned.
C21_BearerCoversAll ==
  ~CarriesToken(authorization) =>
    /\ dom = NoDom
    /\ \A k \in 1..Len(responses) :
         /\ responses[k].status = 403
         /\ responses[k].segments = Absent
         /\ responses[k].html = Absent

(***************************************************************************)
(* Missing segments in mergeTranslations of part_002.                      *)
(***************************************************************************)
\* the id of a path whose last step names a tag the documents do not hold
MISSING_STEP_ID == generatePathHash(<<"h", "t", "m", "l", ".", "b", "o", "d", "y", "[", "0", "]", ".", "q", "[", "0", "]">>)

InitPart2Missing ==
  /\ pc = "check"
  /\ op = "merge"
  /\ \E f \in MergeDocuments :
       /\ reqHtml = InnerHtml(RootNode(f))
       /\ translations \in
            SeqsUpTo([id : Part2Ids(f) \cup {MISSING_STEP_ID}, text : {X_text}], MaxBatch)
  /\ reqOptions \in [safetyCheck : BOOLEAN, strictMode : {FALSE}]
  /\ dom = NoDom
  /\ loopIdx = 0
  /\ successCount = 0
  /\ missingIds = <<>>
  /\ entries = <<>>
  /\ responses = <<>>
  /\ ValidatorIdle
  /\ ServerRunning

SpecPart2Missing == InitPart2Missing /\ [][NextPart2]_vars

RECURSIVE StepsMatch(_, _, _)
\* every step of parts selects a same-tag child at its ordinal, from pos down
StepsMatch(t, pos, parts) ==
  IF parts = <<>> THEN TRUE
  ELSE LET m == PartMatch(Head(parts))
       IN /\ m # NoMatch
          /\ Len(SameTagChildren(t, pos, m.tagName)) > m.index
          /\ StepsMatch(t, SameTagChildren(t, pos, m.tagName)[m.index + 1], Tail(parts))

\* the id decodes to a path with a step that has no matching same-tag child
\* at its ordinal in the document t; the steps are those after the leading
\* 'html', which generateSegmentId writes for the html element
HasMissingStep(t, id) ==
  LET parts == Split(B64Decode(id), ".")
  IN ~(parts # <<>> /\ Head(parts) = T_html /\ StepsMatch(t, <<1>>, Tail(parts)))

\* C22: missing segments in the part_002 parser.  When a translation id of
\* the batch decodes to a path with a step that has no matching child in the
\* document, mergeTranslations ends with MISSING_SEGMENTS listing the id and
\* returns no HTML.
C22_MissingSegments ==
  (pc = "done" /\ Len(responses) = 1 /\ responses[1].status # 400) =>
    \A k \in 1..Len(translations) :
      HasMissingStep(CheerioLoad(reqHtml), translations[k].id) =>
        /\ responses[1].status = 422
        /\ responses[1].error = "MISSING_SEGMENTS"
        /\ responses[1].html = Absent
        /\ \E j \in 1..Len(responses[1].missingIds) :
             responses[1].missingIds[j] = translations[k].id

(***************************************************************************)
(* The two validators compared.                                            *)
(***************************************************************************)
\* C23: the two validator implementations agree.  For every fragment,
\* checkUnclosedTags of part_002 returns isValid true exactly when the
\* stack-based checkUnclosedTags of the native server does.
C23_ValidatorsAgree ==
  pc = "returned" => result.isValid = checkUnclosedTags_part002(text).isValid

(***************************************************************************)
(* Strict mode and the state of the tree when the failure is reported.     *)
(***************************************************************************)
\* C24: strict mode aborts before mutation.  When strictMode is set and the
\* request is answered with the failure of an unresolvable id, the tree is
\* the freshly parsed input tree and no translation has been counted as
\* applied.
C24_AbortBeforeMutation ==
  (/\ op = "merge" /\ pc = "done" /\ StrictMode
   /\ Len(responses) = 1 /\ responses[1].status = 422) =>
    /\ dom = CheerioLoad(reqHtml)
    /\ successCount = 0

(***************************************************************************)
(* The native server: a POST /extract or POST /merge request from the      *)
(* request listener on, and the shutdown of the process.                   *)
(***************************************************************************)
\* the document of the requests of this part: <p>a</p>
ServerDocument == <<Element(T_p, NoClass, <<TextNode(<<"a">>)>>)>>

\* what the client sends as the body: a JSON body that parseInput accepts,
\* one it rejects, more than MAX_HTML_SIZE bytes, or nothing for
\* REQUEST_TIMEOUT milliseconds
Bodies == {"json", "malformed", "tooLarge", "timeout"}

InitServer ==
  /\ pc = "received"
  /\ op \in {"extract", "merge"}
  /\ reqHtml = InnerHtml(RootNode(ServerDocument))
  /\ translations \in IF op = "merge" THEN Translations(ServerDocument) ELSE {<<>>}
  /\ reqOptions \in IF op = "merge" THEN MergeOptionSets ELSE ExtractOptionSets
  /\ dom = NoDom
  /\ loopIdx = 0
  /\ successCount = 0
  /\ missingIds = <<>>
  /\ entries = <<>>
  /\ responses = <<>>
  /\ ValidatorIdle
  /\ authorization \in AuthHeaders
  /\ body \in Bodies
  /\ ProcessRunning

\* validateToken: TRUE when the handler may go on
validateToken(authHeader) ==
  IF \/ authHeader = Absent
     \/ authHeader = <<>>
     \/ ~StartsWith(ToLowerCase(authHeader), ToLowerCase(AUTH_HEADER_PREFIX))
  THEN FALSE
  ELSE SubSeq(authHeader, Len(AUTH_HEADER_PREFIX) + 1, Len(authHeader)) = API_TOKEN

\* sendJsonResponse(res, statusCode, {error}): res.writeHead and res.end
sendJsonResponse(written, statusCode, error) ==
  Append(written, Response(statusCode, error))

\* handleExtract, handleMerge: if (!validateToken(req, res)) return
ValidateToken ==
  /\ pc = "received"
  /\ exitCode = <<>>
  /\ IF validateToken(authorization)
     THEN /\ pc' = "readBody"
          /\ UNCHANGED responses
     ELSE /\ responses' = sendJsonResponse(responses, 403, "UNAUTHORIZED")
          /\ pc' = "done"
  /\ UNCHANGED <<op, reqHtml, reqOptions, translations, dom, loopIdx, successCount,
                 missingIds, entries>>
  /\ UNCHANGED <<validatorVars, serverVars>>

\* await readRequestBody(req, res) inside the try block of the handler.  On
\* 'end' the promise resolves.  When the size limit is passed, the 'error'
\* listener answers 413 and rejects, and the catch block of the handler
\* calls sendJsonResponse(res, 500, ...) on the same response: writeHead
\* throws ERR_HTTP_HEADERS_SENT out of the catch block and the promise of
\* the handler is rejected with nobody to catch it.  When the read timer
\* fires, the listener rejects without an answer and the catch block
\* answers 500.
ReadRequestBody ==
  /\ pc = "readBody"
  /\ exitCode = <<>>
  /\ CASE body \in {"json", "malformed"} ->
            /\ pc' = "parseInput"
            /\ UNCHANGED responses
       [] body = "tooLarge" ->
            /\ responses' = sendJsonResponse(
                              sendJsonResponse(responses, 413, "VALIDATION_ERROR"),
                              500, "INTERNAL_ERROR")
            /\ pc' = "unhandledRejection"
       [] body = "timeout" ->
            /\ responses' = sendJsonResponse(responses, 500, "INTERNAL_ERROR")
            /\ pc' = "done"
  /\ UNCHANGED <<op, reqHtml, reqOptions, translations, dom, loopIdx, successCount,
                 missingIds, entries>>
  /\ UNCHANGED <<validatorVars, serverVars>>

\* parseInput: 422 for a body that is not the JSON the endpoint expects,
\* null is returned and the handler returns
ParseInput ==
  /\ pc = "parseInput"
  /\ exitCode = <<>>
  /\ IF body = "malformed"
     THEN /\ responses' = sendJsonResponse(responses, 422, "VALIDATION_ERROR")
          /\ pc' = "done"
     ELSE /\ pc' = "parsed"
          /\ UNCHANGED responses
  /\ UNCHANGED <<op, reqHtml, reqOptions, translations, dom, loopIdx, successCount,
                 missingIds, entries>>
  /\ UNCHANGED <<validatorVars, serverVars>>

\* gracefulShutdown without the force-exit timer
gracefulShutdown_NoTimer ==
  IF isShuttingDown
  THEN UNCHANGED <<isShuttingDown, closeCalls, forceTimers>>
  ELSE /\ isShuttingDown' = TRUE
       /\ closeCalls' = closeCalls + 1
       /\ UNCHANGED forceTimers

\* gracefulShutdown(signal) of the native server: the guard, server.close
\* and the force-exit timer
gracefulShutdown ==
  IF isShuttingDown
  THEN UNCHANGED <<isShuttingDown, closeCalls, forceTimers>>
  ELSE /\ isShuttingDown' = TRUE
       /\ closeCalls' = closeCalls + 1
       /\ forceTimers' = forceTimers + 1

\* the events the process listens to with gracefulShutdown
Signals == {"SIGTERM", "SIGINT", "uncaughtException", "unhandledRejection"}

\* process.on('SIGTERM' | 'SIGINT' | 'uncaughtException', ...)
Signal ==
  /\ exitCode = <<>>
  /\ \E signal \in Signals \ {"unhandledRejection"} : gracefulShutdown
  /\ UNCHANGED <<authorization, body, closeErr, exitCode>>
  /\ UNCHANGED <<requestVars, validatorVars>>

\* process.on('unhandledRejection', ...) for the rejected promise of a handler
UnhandledRejection ==
  /\ pc = "unhandledRejection"
  /\ exitCode = <<>>
  /\ gracefulShutdown
  /\ pc' = "done"
  /\ UNCHANGED <<authorization, body, closeErr, exitCode>>
  /\ UNCHANGED <<op, reqHtml, reqOptions, translations, dom, loopIdx, successCount,
                 missingIds, entries, responses>>
  /\ UNCHANGED validatorVars

\* the callback of server.close: it runs when no connection is open any more
ServerClosed ==
  /\ closeCalls > 0
  /\ exitCode = <<>>
  /\ pc = "done"
  /\ \E err \in {"undefined", "ERR_SERVER_NOT_RUNNING"} :
       /\ closeErr' = err
       /\ exitCode' = IF err # "undefined" THEN <<1>> ELSE <<0>>
  /\ UNCHANGED <<authorization, body, isShuttingDown, closeCalls, forceTimers>>
  /\ UNCHANGED <<requestVars, validatorVars>>

\* the callback of the force-exit timer
ForceExit ==
  /\ forceTimers > 0
  /\ exitCode = <<>>
  /\ exitCode' = <<1>>
  /\ UNCHANGED <<authorization, body, isShuttingDown, closeCalls, forceTimers, closeErr>>
  /\ UNCHANGED <<requestVars, validatorVars>>

NextServer ==
  \/ ValidateToken
  \/ ReadRequestBody
  \/ ParseInput
  \/ Extract
  \/ MergeSafetyCheck
  \/ MergeLoad
  \/ MergeApply
  \/ MergeRespond
  \/ UnhandledRejection
  \/ Signal
  \/ ServerClosed
  \/ ForceExit

SpecServer == InitServer /\ [][NextServer]_vars

\* the event loop runs the callback of a timer that is due
SpecServerLive == SpecServer /\ WF_vars(ForceExit)

\* C27: at most one response per request in the native server.  Along every
\* path through token validation, body reading, input parsing, safety check
\* and merging the handler writes a response at most once.
C27_AtMostOneResponse == Len(responses) <= 1

\* C26: shutdown terminates.  Once the native server has started a graceful
\* shutdown the process eventually exits, and it exits with code 0 exactly
\* when the callback of server.close ran without error before the
\* force-exit timer, with code 1 otherwise.
C26_ShutdownTerminates ==
  /\ isShuttingDown ~> (exitCode # <<>>)
  /\ [][(exitCode = <<>> /\ exitCode' # <<>>) =>
          exitCode' = IF closeErr' = "undefined" THEN <<0>> ELSE <<1>>]_vars

\* a shutdown has ended with the callback of server.close and exit code 0
C26_Witness ==
  /\ isShuttingDown
  /\ closeCalls = 1 /\ forceTimers = 1
  /\ closeErr = "undefined"
  /\ exitCode = <<0>>

(***************************************************************************)
(* The Express application: the shutdown of the process.                   *)
(***************************************************************************)
\* the number of shutdown triggers the model follows
MaxShutdowns == 2

\* gracefulShutdown(signal) of the Express application: the flag is set and
\* never read; server has been assigned by app.listen before any event is
\* delivered, so the branch of server.close and the timer is taken
gracefulShutdown_express ==
  /\ isShuttingDown' = TRUE
  /\ closeCalls' = closeCalls + 1
  /\ forceTimers' = forceTimers + 1

\* process.on('SIGTERM' | 'SIGINT' | 'uncaughtException' |
\* 'unhandledRejection', ...) of the Express application
ExpressSignal ==
  /\ exitCode = <<>>
  /\ closeCalls < MaxShutdowns
  /\ \E signal \in Signals : gracefulShutdown_express
  /\ UNCHANGED <<authorization, body, closeErr, exitCode>>
  /\ UNCHANGED <<requestVars, validatorVars>>

NextExpressShutdown ==
  \/ RouteMergeAuth
  \/ RouteExtract
  \/ RouteSafetyCheck
  \/ ParserSafetyCheck
  \/ ParserLoad
  \/ ParserApply
  \/ ParserReturn
  \/ ExpressSignal
  \/ ServerClosed
  \/ ForceExit

SpecExpressShutdown == InitExpressApi /\ [][NextExpressShutdown]_vars

\* C25: repeated shutdown triggers are idempotent.  Once a graceful shutdown
\* is in progress, no step calls server.close again or starts another
\* force-exit timer.
C25_ShutdownIdempotent ==
  [][isShuttingDown => (closeCalls' = closeCalls /\ forceTimers' = forceTimers)]_vars

(***************************************************************************)
(* part_002: extraction from documents that hold excluded elements.        *)
(***************************************************************************)
\* INLINE_TAGS of the native server
INLINE_TAGS == INLINE_TAGS_part002 \ {T_code, <<"d", "f", "n">>}

Part2PruneDocuments ==
  DocumentsOver(MaxNodes, {Label(T_div, NoClass), Label(T_code, NoClass)}, {<<"a">>})

InitPart2Prune ==
  /\ op = "extract"
  /\ \E f \in Part2PruneDocuments : reqHtml = InnerHtml(RootNode(f))
  /\ reqOptions \in ExtractOptionSets
  /\ translations = <<>>
  /\ HandlerEntry

SpecPart2Prune == InitPart2Prune /\ [][NextPart2Extract]_vars

\* the classifications the base sets give a tag name
Classifications(name, containers, inlines, excluded) ==
  {c \in {"Container", "Inline", "Excluded"} :
     \/ c = "Container" /\ name \in containers
     \/ c = "Inline" /\ name \in inlines
     \/ c = "Excluded" /\ name \in excluded}

\* C28: classification is a function.  In every parser variant the base sets
\* are pairwise disjoint: the tag name of every element of the parsed
\* document has at most one of the classifications Container, Inline and
\* Excluded (and is Unclassified when it has none).
C28_ClassificationFunction ==
  pc = "done" =>
    LET t == CheerioLoad(reqHtml)
    IN \A k \in 1..Len(ElementPositions(t)) :
         LET name == NodeAt(t, ElementPositions(t)[k]).name
         IN /\ Cardinality(Classifications(name, CONTAINER_TAGS, INLINE_TAGS,
                                           EXCLUDED_TAGS)) <= 1
            /\ Cardinality(Classifications(name, CONTAINER_TAGS_part002,
                                           INLINE_TAGS_part002,
                                           EXCLUDED_TAGS_part002)) <= 1

(***************************************************************************)
(* checkUnclosedTags of the native server on fragments with interleaved    *)
(* tags.                                                                   *)
(***************************************************************************)
\* the number of pieces of a fragment with interleaved tags
MaxInterleaved == 4

InterleavedPieces ==
  {<<"<", "b", ">">>, <<"<", "/", "b", ">">>, <<"<", "i", ">">>, <<"<", "/", "I", ">">>, <<"<", "b", "r", ">">>}

RECURSIVE InterleavedOfLength(_)
\* the concatenations of exactly n of the pieces
InterleavedOfLength(n) ==
  IF n = 0 THEN {<<>>}
  ELSE {f \o p : f \in InterleavedOfLength(n - 1), p \in InterleavedPieces}

InitInterleaved ==
  /\ pc = "scan"
  /\ op = "validate"
  /\ text \in UNION {InterleavedOfLength(n) : n \in 0..MaxInterleaved}
  /\ lastIndex = 0
  /\ stack = <<>>
  /\ missingTags = <<>>
  /\ result = Absent
  /\ reqHtml = <<>>
  /\ reqOptions = [safetyCheck |-> TRUE, strictMode |-> FALSE]
  /\ translations = <<>>
  /\ dom = NoDom
  /\ loopIdx = 0
  /\ successCount = 0
  /\ missingIds = <<>>
  /\ entries = <<>>
  /\ responses = <<>>
  /\ ServerRunning

SpecInterleaved == InitInterleaved /\ [][NextValidator]_vars

\* the tokens of a fragment that are neither void nor self-closing
CountedTokens(fragment) ==
  SelectSeq(TagTokens(fragment, 1), LAMBDA tok :
    ~(ToLowerCase(tok.name) \in VoidNames \/ TokenIsSelfClosing(tok)))

\* among the first k tokens, the number of tokens of the name that are
\* closing (or opening) tags
NamedTokens(toks, k, name, closing) ==
  Cardinality({j \in 1..k : /\ ToLowerCase(toks[j].name) = name
                            /\ TokenIsClosing(toks[j]) = closing})

\* per tag name: no prefix with more closing than opening tags, and equally
\* many in the whole sequence
CountingValid(fragment) ==
  LET toks == CountedTokens(fragment)
  IN \A name \in {ToLowerCase(toks[j].name) : j \in 1..Len(toks)} :
       /\ \A k \in 0..Len(toks) :
            NamedTokens(toks, k, name, TRUE) <= NamedTokens(toks, k, name, FALSE)
       /\ NamedTokens(toks, Len(toks), name, TRUE) = NamedTokens(toks, Len(toks), name, FALSE)

\* C29: counting characterisation of the native validator.  isValid is true
\* iff, for each non-void tag name separately, no prefix of the token
\* sequence holds more closing than opening tags of the name and the whole
\* sequence holds equally many; the nesting order between different names
\* does not matter.
C29_CountingCharacterisation ==
  pc = "returned" => (result.isValid <=> CountingValid(text))

\* "<b><i></b></I>", whose tags are interleaved, has been found valid
C29_Witness ==
  /\ pc = "returned"
  /\ text = <<"<", "b", ">", "<", "i", ">", "<", "/", "b", ">", "<", "/", "I", ">">>
  /\ result.isValid

\* the element at pos of the unpruned tree t is not removed: neither it nor
\* an ancestor has an excluded tag
Remains(t, pos) ==
  \A k \in 1..Len(pos) : NodeAt(t, SubSeq(pos, 1, k)).name \notin EXCLUDED_TAGS_part002

\* the position in RemoveExcluded(t) of the element that is at pos in t
PrunedPosition(t, pos) ==
  [k \in 1..Len(pos) |->
     LET kids == NodeAt(t, SubSeq(pos, 1, k - 1)).kids
     IN Cardinality({j \in 1..pos[k] :
          ~(IsTag(kids[j]) /\ kids[j].name \in EXCLUDED_TAGS_part002)})]

\* the container elements of the unpruned tree that remain after pruning
RemainingContainers(t) ==
  SelectSeq(ElementPositions(t), LAMBDA pos :
    Remains(t, pos) /\ NodeAt(t, pos).name \in CONTAINER_TAGS_part002)

\* C30: pruning does not shift addresses in the part_002 parser.  Every
\* container element that remains after the removal of the excluded-tag
\* elements has, in the pruned tree, the address it has in the unpruned
\* document that merge parses.
C30_PruningKeepsAddresses ==
  pc = "done" =>
    LET t == CheerioLoad(reqHtml)
        cs == RemainingContainers(t)
    IN \A k \in 1..Len(cs) :
         /\ NodeAt(dom, PrunedPosition(t, cs[k])) = RemoveExcluded(NodeAt(t, cs[k]))
         /\ generateSegmentId(dom, PrunedPosition(t, cs[k])) = generateSegmentId(t, cs[k])

\* extraction has pruned an excluded element that precedes a remaining
\* container element under the same parent
C30_Witness ==
  /\ pc = "done"
  /\ LET t == CheerioLoad(reqHtml)
         cs == RemainingContainers(t)
     IN \E k \in 1..Len(cs) :
          /\ PrunedPosition(t, cs[k])[Len(cs[k])] < cs[k][Len(cs[k])]
          /\ \E j \in 1..Len(entries) : entries[j].el = PrunedPosition(t, cs[k])

====
